---- MODULE Spec2Model ----
(***************************************************************************)
(* Multi-granularity demand forecasting pipeline (ml/utils): the real-data *)
(* loader, the resampler, the feature builder and the temporal splitter.   *)
(*                                                                         *)
(* Timestamps are whole hours since 1970-01-01 00:00 (pandas' own epoch).  *)
(* A cell of a table is a reduced fraction <<num, den>>; <<0, 0>> is NaN.  *)
(* A table (DataFrame) is [index |-> sequence of timestamps,               *)
(*                         cols  |-> column name -> sequence of cells].    *)
(***************************************************************************)
EXTENDS Integers, Sequences, FiniteSets, TLC

VARIABLES files, gran, agg, pc, err, hourly, series, feat, splitOf,
          testPeriods, train, test,
          outputs, saved, resp, listing, writer, reader,
          rng, synthetic, calls, request,
          y_true, y_pred, result,
          argv, args, jobs

\* The pipeline of one training run.
pipelineVars == <<files, gran, agg, pc, err, hourly, series, feat, splitOf,
                  testPeriods, train, test>>

\* The outputs directory, the content last saved under each key, the
\* answers of the query layer, the save_outputs call in progress and the
\* loads of a reader of one key.
storeVars == <<outputs, saved, resp, listing, writer, reader>>

\* numpy's global random generator, the last series the synthetic generator
\* returned, the series it returned first for each (n_days, seed), and the
\* arguments of get_hourly_data.
sourceVars == <<rng, synthetic, calls, request>>

\* The arguments and the outcome of compute_all_metrics.
metricsVars == <<y_true, y_pred, result>>

\* train_all.py: its command line, the parsed arguments and the training
\* jobs it launches.
trainVars == <<argv, args, jobs>>

vars == <<pipelineVars, storeVars, sourceVars, metricsVars, trainVars>>

----------------------------------------------------------------------------
(* Bounds of the checked input families.                                   *)

MaxPoints == 4
MaxHours == 170
MaxDays == 32
MaxWeeks == 54
MaxMonths == 14
MaxYears == 4
MaxTestPeriods == 7
MaxSaves == 2
MaxContents == 2
MaxSynthDays == 1
MaxSourceHours == 30
MaxLen == 3
MaxArgs == 2
MaxMinimumDays == 120

----------------------------------------------------------------------------
(* Cells: exact arithmetic on float values.                                *)

NaN == <<0, 0>>

IsNaN(c) == c[2] = 0

Num(v) == <<v, 1>>

Min2(a, b) == IF a <= b THEN a ELSE b

Max2(a, b) == IF a >= b THEN a ELSE b

RECURSIVE GCD(_, _)
GCD(a, b) == IF b = 0 THEN a ELSE GCD(b, a % b)

Frac(n, d) == LET g == GCD(n, d) IN <<n \div g, d \div g>>

FracAdd(a, b) == Frac(a[1] * b[2] + b[1] * a[2], a[2] * b[2])

FracDiv(a, w) == Frac(a[1], a[2] * w)

FracLess(a, b) == a[1] * b[2] < b[1] * a[2]

\* Sum of the cells s[lo..hi], none of them NaN.  Cells are exact, so the
\* sum of the two halves is the sum from the left.
RECURSIVE SumRange(_, _, _)
SumRange(s, lo, hi) ==
    IF lo > hi THEN Num(0)
    ELSE IF lo = hi THEN s[lo]
    ELSE FracAdd(SumRange(s, lo, (lo + hi) \div 2),
                 SumRange(s, (lo + hi) \div 2 + 1, hi))

RECURSIVE MaxRange(_, _, _)
MaxRange(s, lo, hi) ==
    IF lo = hi THEN s[hi]
    ELSE LET m == MaxRange(s, lo, hi - 1)
         IN  IF FracLess(m, s[hi]) THEN s[hi] ELSE m

RECURSIVE MinRange(_, _, _)
MinRange(s, lo, hi) ==
    IF lo = hi THEN s[hi]
    ELSE LET m == MinRange(s, lo, hi - 1)
         IN  IF FracLess(s[hi], m) THEN s[hi] ELSE m

----------------------------------------------------------------------------
(* IEEE 754 binary64 arithmetic (numpy float64, Python float), rounding to *)
(* nearest, ties to even.  A natural number of any size is the sequence of *)
(* its base-2^15 digits, least significant first (no leading zero digit);  *)
(* a non-negative double is [m, e], the value m * 2^e with m = 0 or        *)
(* 2^52 <= m < 2^53.                                                       *)

LimbBits == 15

LimbBase == 32768

MantissaBits == 53

Limb(x, i) == IF i <= Len(x) THEN x[i] ELSE 0

RECURSIVE BTrim(_)
BTrim(x) ==
    IF x = <<>> THEN x
    ELSE IF x[Len(x)] = 0 THEN BTrim(SubSeq(x, 1, Len(x) - 1))
    ELSE x

RECURSIVE BFromInt(_)
BFromInt(n) == IF n = 0 THEN <<>> ELSE <<n % LimbBase>> \o BFromInt(n \div LimbBase)

RECURSIVE BToInt(_)
BToInt(x) == IF x = <<>> THEN 0 ELSE x[1] + LimbBase * BToInt(Tail(x))

RECURSIVE BAddFrom(_, _, _, _)
BAddFrom(x, y, i, c) ==
    IF i > Len(x) /\ i > Len(y) THEN (IF c = 0 THEN <<>> ELSE <<c>>)
    ELSE <<(Limb(x, i) + Limb(y, i) + c) % LimbBase>>
             \o BAddFrom(x, y, i + 1, (Limb(x, i) + Limb(y, i) + c) \div LimbBase)

BAdd(x, y) == BAddFrom(x, y, 1, 0)

\* x - y for x >= y.
RECURSIVE BSubFrom(_, _, _, _)
BSubFrom(x, y, i, b) ==
    IF i > Len(x) THEN <<>>
    ELSE <<(x[i] - Limb(y, i) - b + LimbBase) % LimbBase>>
             \o BSubFrom(x, y, i + 1, IF x[i] - Limb(y, i) - b < 0 THEN 1 ELSE 0)

BSub(x, y) == BTrim(BSubFrom(x, y, 1, 0))

RECURSIVE BCmpFrom(_, _, _)
BCmpFrom(x, y, i) ==
    IF i = 0 THEN 0
    ELSE IF x[i] # y[i] THEN (IF x[i] < y[i] THEN 0 - 1 ELSE 1)
    ELSE BCmpFrom(x, y, i - 1)

\* -1, 0 or 1 as x is less than, equal to or greater than y.
BCmp(x, y) ==
    IF Len(x) # Len(y) THEN (IF Len(x) < Len(y) THEN 0 - 1 ELSE 1)
    ELSE BCmpFrom(x, y, Len(x))

RECURSIVE BMulSmallFrom(_, _, _, _)
BMulSmallFrom(x, k, i, c) ==
    IF i > Len(x) THEN (IF c = 0 THEN <<>> ELSE <<c>>)
    ELSE <<(x[i] * k + c) % LimbBase>>
             \o BMulSmallFrom(x, k, i + 1, (x[i] * k + c) \div LimbBase)

\* x * k for 0 <= k <= 2^15.
BMulSmall(x, k) == IF k = 0 THEN <<>> ELSE BMulSmallFrom(x, k, 1, 0)

BShiftLimbs(x, n) == IF x = <<>> THEN x ELSE [i \in 1..n |-> 0] \o x

RECURSIVE BMulFrom(_, _, _)
BMulFrom(x, y, j) ==
    IF j > Len(y) THEN <<>>
    ELSE BAdd(BShiftLimbs(BMulSmall(x, y[j]), j - 1), BMulFrom(x, y, j + 1))

BMul(x, y) == BMulFrom(x, y, 1)

\* x * 2^bits
BShl(x, bits) == BShiftLimbs(BMulSmall(x, 2 ^ (bits % LimbBits)), bits \div LimbBits)

\* The digits of floor(x / k), x being digits 1..i with r carried in from
\* the digits above.
RECURSIVE BDivSmallFrom(_, _, _, _)
BDivSmallFrom(x, k, i, r) ==
    IF i = 0 THEN <<>>
    ELSE Append(BDivSmallFrom(x, k, i - 1, (r * LimbBase + x[i]) % k),
                (r * LimbBase + x[i]) \div k)

BDivSmall(x, k) == BTrim(BDivSmallFrom(x, k, Len(x), 0))

\* floor(x / 2^bits)
BShr(x, bits) ==
    BDivSmall(SubSeq(x, (bits \div LimbBits) + 1, Len(x)), 2 ^ (bits % LimbBits))

BBitLen(x) ==
    IF x = <<>> THEN 0
    ELSE (Len(x) - 1) * LimbBits
            + CHOOSE b \in 1..LimbBits : 2 ^ (b - 1) <= x[Len(x)] /\ x[Len(x)] < 2 ^ b

IsOdd(x) == x # <<>> /\ x[1] % 2 = 1

FZero == [m |-> <<>>, e |-> 0]

IsZero(x) == x.m = <<>>

\* q + 1 as a mantissa.
FRoundUp(q, e) ==
    IF BBitLen(BAdd(q, <<1>>)) > MantissaBits
    THEN [m |-> BShr(BAdd(q, <<1>>), 1), e |-> e + 1]
    ELSE [m |-> BAdd(q, <<1>>), e |-> e]

\* c compares the bits cut off with one half; sticky tells that the value
\* exceeds the number that was cut.
FRoundDecide(q, c, e, sticky) ==
    IF c > 0 \/ (c = 0 /\ (sticky \/ IsOdd(q))) THEN FRoundUp(q, e)
    ELSE [m |-> q, e |-> e]

FRoundCut(M, q, s, e, sticky) ==
    FRoundDecide(q, BCmp(BSub(M, BShl(q, s)), BShl(<<1>>, s - 1)), e + s, sticky)

FRoundBits(M, L, e, sticky) ==
    IF L = 0 THEN FZero
    ELSE IF L <= MantissaBits
    THEN [m |-> BShl(M, MantissaBits - L), e |-> e - (MantissaBits - L)]
    ELSE FRoundCut(M, BShr(M, L - MantissaBits), L - MantissaBits, e, sticky)

\* The double nearest to M * 2^e (to a value just above it if sticky; M
\* then has more than 53 bits).
FRound(M, e, sticky) ==
    IF M = <<>> THEN FZero ELSE FRoundBits(M, BBitLen(M), e, sticky)

FromInt(n) == FRound(BFromInt(n), 0, FALSE)

FCmp(x, y) ==
    IF IsZero(x) THEN (IF IsZero(y) THEN 0 ELSE 0 - 1)
    ELSE IF IsZero(y) THEN 1
    ELSE IF x.e # y.e THEN (IF x.e < y.e THEN 0 - 1 ELSE 1)
    ELSE BCmp(x.m, y.m)

FAdd(x, y) ==
    IF IsZero(x) THEN y
    ELSE IF IsZero(y) THEN x
    ELSE FRound(BAdd(BShl(x.m, x.e - Min2(x.e, y.e)), BShl(y.m, y.e - Min2(x.e, y.e))),
                Min2(x.e, y.e), FALSE)

\* x - y for x >= y.
FSub(x, y) ==
    IF IsZero(y) THEN x
    ELSE FRound(BSub(BShl(x.m, x.e - Min2(x.e, y.e)), BShl(y.m, y.e - Min2(x.e, y.e))),
                Min2(x.e, y.e), FALSE)

\* |x - y|
FAbsDiff(x, y) == IF FCmp(x, y) < 0 THEN FSub(y, x) ELSE FSub(x, y)

FMul(x, y) ==
    IF IsZero(x) \/ IsZero(y) THEN FZero
    ELSE FRound(BMul(x.m, y.m), x.e + y.e, FALSE)

GuardBits == 56

\* One more bit of the quotient: the bit and the remainder of 2 * r by d
\* (r < d).
DivStep(r, d) ==
    IF BCmp(BAdd(r, r), d) >= 0
    THEN [q |-> <<1>>, r |-> BSub(BAdd(r, r), d)]
    ELSE [q |-> <<>>, r |-> BAdd(r, r)]

\* The bits hq followed by the n bits and the remainder of l.
DivAppend(hq, l, n) ==
    IF l.q = <<>> THEN [q |-> BShl(hq, n), r |-> l.r]
    ELSE [q |-> BAdd(BShl(hq, n), l.q), r |-> l.r]

\* The quotient and the remainder of r * 2^n by d (r < d): long division,
\* the first half of the bits and then the rest.
RECURSIVE DivBits(_, _, _)
RECURSIVE DivRest(_, _, _)
DivBits(r, d, n) ==
    IF n = 0 THEN [q |-> <<>>, r |-> r]
    ELSE IF n = 1 THEN DivStep(r, d)
    ELSE DivRest(DivBits(r, d, n \div 2), d, n - n \div 2)

\* The bits of h followed by n more bits: zeros if h left no remainder.
DivRest(h, d, n) ==
    IF h.r = <<>> THEN [q |-> BShl(h.q, n), r |-> h.r]
    ELSE DivAppend(h.q, DivBits(h.r, d, n), n)

FDivRound(qr, e) ==
    IF qr.r = <<>> THEN FRound(qr.q, e, FALSE) ELSE FRound(qr.q, e, TRUE)

\* x / y for y > 0.
FDiv(x, y) ==
    IF IsZero(x) THEN FZero
    ELSE IF BCmp(x.m, y.m) >= 0
    THEN FDivRound(DivAppend(<<1>>, DivBits(BSub(x.m, y.m), y.m, GuardBits), GuardBits),
                   x.e - y.e - GuardBits)
    ELSE FDivRound(DivBits(x.m, y.m, GuardBits), x.e - y.e - GuardBits)

\* r with bit b set if the square stays within N.
SqrtStep(N, r, b) ==
    IF BCmp(BMul(BAdd(r, BShl(<<1>>, b)), BAdd(r, BShl(<<1>>, b))), N) <= 0
    THEN BAdd(r, BShl(<<1>>, b))
    ELSE r

\* The integer square root of N, its bits above hi being those of r (never
\* more than GuardBits digits) and the bits hi down to lo still to be decided.
RECURSIVE SqrtBits(_, _, _, _)
SqrtBits(N, r, hi, lo) ==
    IF hi < lo \/ Len(r) > GuardBits THEN r
    ELSE IF hi = lo THEN SqrtStep(N, r, hi)
    ELSE SqrtBits(N, SqrtBits(N, r, hi, (hi + lo) \div 2 + 1), (hi + lo) \div 2, lo)

FSqrtRound(N, r, e) ==
    IF BCmp(BMul(r, r), N) = 0 THEN FRound(r, e, FALSE) ELSE FRound(r, e, TRUE)

FSqrtShifted(m, e, k) ==
    FSqrtRound(BShl(m, k), SqrtBits(BShl(m, k), <<>>, GuardBits, 0), (e - k) \div 2)

FSqrt(x) ==
    IF IsZero(x) THEN FZero
    ELSE FSqrtShifted(x.m, x.e, IF (x.e - 58) % 2 = 0 THEN 58 ELSE 59)

\* The double of the decimal literal k/d.
FromDecimal(k, d) == FDiv(FromInt(k), FromInt(d))

RoundShiftDecide(q, c) ==
    BToInt(q) + (IF c > 0 \/ (c = 0 /\ IsOdd(q)) THEN 1 ELSE 0)

RoundShiftCut(N, q, s) ==
    RoundShiftDecide(q, BCmp(BSub(N, BShl(q, s)), BShl(<<1>>, s - 1)))

\* A variant of Round2 that cuts the digits after the second decimal.
Round2_Floor(x) ==
    IF IsZero(x) THEN 0
    ELSE IF x.e >= 0 THEN BToInt(BShl(BMulSmall(x.m, 100), x.e))
    ELSE BToInt(BShr(BMulSmall(x.m, 100), 0 - x.e))

\* round(x, 2) in hundredths: the integer nearest to 100 * x, ties to even.
Round2(x) ==
    IF IsZero(x) THEN 0
    ELSE IF x.e >= 0 THEN BToInt(BShl(BMulSmall(x.m, 100), x.e))
    ELSE RoundShiftCut(BMulSmall(x.m, 100), BShr(BMulSmall(x.m, 100), 0 - x.e), 0 - x.e)

----------------------------------------------------------------------------
(* Calendar of pandas' DatetimeIndex (proleptic Gregorian).                *)

DayOf(ts) == ts \div 24

HourOf(ts) == ts % 24

\* Monday = 0 ... Sunday = 6; day 0 (1970-01-01) is a Thursday.
DayOfWeek(ts) == (DayOf(ts) + 3) % 7

IsLeap(y) == (y % 4 = 0 /\ y % 100 # 0) \/ y % 400 = 0

DaysInMonth(y, m) ==
    IF m = 2 THEN (IF IsLeap(y) THEN 29 ELSE 28)
    ELSE IF m \in {4, 6, 9, 11} THEN 30 ELSE 31

\* Day number of the civil date y-m-d (years counted from March).
DaysFromMarch(yy, mp, d) ==
    (yy \div 400) * 146097 + (yy % 400) * 365 + (yy % 400) \div 4
    - (yy % 400) \div 100 + (153 * mp + 2) \div 5 + d - 1 - 719468

DaysFromCivil(y, m, d) ==
    IF m <= 2 THEN DaysFromMarch(y - 1, m + 9, d) ELSE DaysFromMarch(y, m - 3, d)

\* Civil date [y, m, d] of a day number (the steps of the conversion, last
\* step first).
CivilYmd(y, m, d) == [y |-> y + (IF m <= 2 THEN 1 ELSE 0), m |-> m, d |-> d]

CivilMp(y, doy, mp) ==
    CivilYmd(y, IF mp < 10 THEN mp + 3 ELSE mp - 9, doy - (153 * mp + 2) \div 5 + 1)

CivilDoy(y, doy) == CivilMp(y, doy, (5 * doy + 2) \div 153)

CivilYoe(era, doe, yoe) ==
    CivilDoy(yoe + era * 400, doe - (365 * yoe + yoe \div 4 - yoe \div 100))

CivilDoe(era, doe) ==
    CivilYoe(era, doe,
             (doe - doe \div 1460 + doe \div 36524 - doe \div 146096) \div 365)

CivilEra(z) == CivilDoe(z \div 146097, z % 146097)

Civil(day) == CivilEra(day + 719468)

YearOf(ts) == Civil(DayOf(ts)).y

MonthOf(ts) == Civil(DayOf(ts)).m

QuarterOf(ts) == (MonthOf(ts) - 1) \div 3 + 1

YearStartDay(y) == DaysFromCivil(y, 1, 1)

DayOfYear(ts) == DayOf(ts) - YearStartDay(YearOf(ts)) + 1

\* Number of ISO weeks of year y.
IsoWeeksForJan1(jan1, leap) ==
    IF jan1 = 3 \/ (jan1 = 2 /\ leap) THEN 53 ELSE 52

IsoWeeksInYear(y) == IsoWeeksForJan1(DayOfWeek(YearStartDay(y) * 24), IsLeap(y))

\* DatetimeIndex.isocalendar().week
IsoWeekOf(y, w) ==
    IF w < 1 THEN IsoWeeksInYear(y - 1)
    ELSE IF w > IsoWeeksInYear(y) THEN 1 ELSE w

IsoWeek(ts) ==
    IsoWeekOf(YearOf(ts), (DayOfYear(ts) - (DayOfWeek(ts) + 1) + 10) \div 7)

\* ts + k calendar months (k may be negative), as pd.DateOffset(months=k):
\* the day of month is clipped to the target month, the hour is kept.
ClipDay(y, m, d, h) == DaysFromCivil(y, m, Min2(d, DaysInMonth(y, m))) * 24 + h

MonthIndexToTs(mi, d, h) == ClipDay(mi \div 12, (mi % 12) + 1, d, h)

AddMonthsCivil(c, h, k) == MonthIndexToTs(c.y * 12 + (c.m - 1) + k, c.d, h)

AddMonths(ts, k) == AddMonthsCivil(Civil(DayOf(ts)), HourOf(ts), k)

----------------------------------------------------------------------------
(* The granularity registry (granularity.py).                              *)

Granularities == {"H", "D", "W", "M", "Y"}

\* GRANULARITY_CONFIG[g].default_test_periods
DefaultTestPeriods(g) ==
    CASE g = "H" -> 168 [] g = "D" -> 7 [] g = "W" -> 4 [] g = "M" -> 3
      [] OTHER -> 1

----------------------------------------------------------------------------
(* Tables.                                                                 *)

NRows(t) == Len(t.index)

EmptySeries == [index |-> <<>>, cols |-> [c \in {"demand"} |-> <<>>]]

\* The rows of t at the positions idx, in that order.
TakeRows(t, idx) ==
    [index |-> [j \in 1..Len(idx) |-> t.index[idx[j]]],
     cols  |-> [c \in DOMAIN t.cols |->
                   [j \in 1..Len(idx) |-> t.cols[c][idx[j]]]]]

Positions(n) == [i \in 1..n |-> i]

\* df[name] = vals : adds the column, or replaces one of the same name.
SetCol(t, name, vals) == [t EXCEPT !.cols = (name :> vals) @@ @]

\* Series.shift(k), k >= 0: positional, the first k rows become NaN.
Shift(col, k) == [i \in 1..Len(col) |-> IF i - k >= 1 THEN col[i - k] ELSE NaN]

\* Series.rolling(w).mean(): NaN unless the window holds w non-NaN values.
RollingMean(col, w) ==
    [i \in 1..Len(col) |->
        IF i >= w /\ \A j \in (i - w + 1)..i : ~IsNaN(col[j])
        THEN FracDiv(SumRange(col, i - w + 1, i), w)
        ELSE NaN]

\* Mutant: dropna(how="all"), the rows that are not NaN in every column.
DropNa_All(t) ==
    LET Some(i) == \E c \in DOMAIN t.cols : ~IsNaN(t.cols[c][i])
    IN  TakeRows(t, SelectSeq(Positions(NRows(t)), Some))

\* DataFrame.dropna(): the rows with no NaN in any column.
DropNa(t) ==
    LET Complete(i) == \A c \in DOMAIN t.cols : ~IsNaN(t.cols[c][i])
    IN  TakeRows(t, SelectSeq(Positions(NRows(t)), Complete))

\* The largest and the smallest element of s[lo..hi] (lo <= hi).
RECURSIVE MaxOf(_, _, _)
MaxOf(s, lo, hi) ==
    IF lo = hi THEN s[lo]
    ELSE Max2(MaxOf(s, lo, (lo + hi) \div 2), MaxOf(s, (lo + hi) \div 2 + 1, hi))

RECURSIVE MinOf(_, _, _)
MinOf(s, lo, hi) ==
    IF lo = hi THEN s[lo]
    ELSE Min2(MinOf(s, lo, (lo + hi) \div 2), MinOf(s, (lo + hi) \div 2 + 1, hi))

\* index.max(), index.min()
IndexMax(index) == MaxOf(index, 1, Len(index))

IndexMin(index) == MinOf(index, 1, Len(index))

----------------------------------------------------------------------------
(* load_real_demand_data (data.py).  files maps a year to the records of   *)
(* demanddata_<year>.csv; a record is [date, period, nd]: settlement date  *)
(* (day number), settlement period 1..48 and the demand column.            *)

\* sorted(years of the files found by glob)
RECURSIVE SortedSeq(_)
SortedSeq(S) ==
    IF S = {} THEN <<>>
    ELSE LET m == CHOOSE x \in S : \A y \in S : x <= y
         IN  <<m>> \o SortedSeq(S \ {m})

\* Rows [t, v] of one file: t is the half-hour number of
\* SETTLEMENT_DATE + (SETTLEMENT_PERIOD - 1) * 30 minutes.
ReadCsv(recs) ==
    [i \in 1..Len(recs) |->
        [t |-> recs[i].date * 48 + (recs[i].period - 1), v |-> recs[i].nd]]

\* all_data concatenated: the files of the requested years that exist.
RECURSIVE Combined(_, _)
Combined(fs, years) ==
    IF years = <<>> THEN <<>>
    ELSE (IF years[1] \in DOMAIN fs THEN ReadCsv(fs[years[1]]) ELSE <<>>)
         \o Combined(fs, Tail(years))

RECURSIVE Merge(_, _)
Merge(a, b) ==
    IF a = <<>> THEN b
    ELSE IF b = <<>> THEN a
    ELSE IF a[1].t <= b[1].t THEN <<a[1]>> \o Merge(Tail(a), b)
    ELSE <<b[1]>> \o Merge(a, Tail(b))

RECURSIVE MergeSort(_)
MergeSort(s) ==
    IF Len(s) <= 1 THEN s
    ELSE Merge(MergeSort(SubSeq(s, 1, Len(s) \div 2)),
               MergeSort(SubSeq(s, Len(s) \div 2 + 1, Len(s))))

\* sort_index(): by timestamp, equal timestamps in concatenation order; an
\* index that is already increasing is returned as it is.
SortIndex(s) ==
    IF \A i \in 2..Len(s) : s[i - 1].t <= s[i].t THEN s ELSE MergeSort(s)

\* combined[~combined.index.duplicated(keep='first')]
DropDuplicates(s) ==
    LET First(i) == i = 1 \/ s[i].t # s[i - 1].t
        keep == SelectSeq(Positions(Len(s)), First)
    IN  [j \in 1..Len(keep) |-> s[keep[j]]]

\* resample("h").mean() then dropna(): one row per hour that has a non-NaN
\* half-hour value, holding the mean of the hour's non-NaN values (the
\* hours without one are NaN rows, which dropna removes).
HourlyMean(s) ==
    LET valid == SelectSeq(s, LAMBDA r : ~IsNaN(r.v))
        n     == Len(valid)
        Start(i) == i = 1 \/ valid[i].t \div 2 # valid[i - 1].t \div 2
        starts == SelectSeq(Positions(n), Start)
        vals  == [i \in 1..n |-> valid[i].v]
        End(j) == IF j = Len(starts) THEN n ELSE starts[j + 1] - 1
    IN  [index |-> [j \in 1..Len(starts) |-> valid[starts[j]].t \div 2],
         cols  |-> [c \in {"demand"} |->
                      [j \in 1..Len(starts) |->
                          FracDiv(SumRange(vals, starts[j], End(j)),
                                  End(j) - starts[j] + 1)]]]

\* hourly[hourly["demand"] > 0]
DropNonPositive(t) ==
    LET Positive(i) == FracLess(Num(0), t.cols["demand"][i])
    IN  TakeRows(t, SelectSeq(Positions(NRows(t)), Positive))

\* The years to load: the argument, or the years of the files found.
YearsToLoad(fs, years) ==
    IF years.given THEN years.list ELSE SortedSeq(DOMAIN fs)

\* The outcome of load_real_demand_data: [err, df].
LoadRealDemandData(fs, years) ==
    LET ys  == YearsToLoad(fs, years)
        all == Combined(fs, ys)
    IN  IF ys = <<>> \/ \A i \in 1..Len(ys) : ys[i] \notin DOMAIN fs
        THEN [err |-> "FileNotFoundError", df |-> EmptySeries]
        ELSE [err |-> "",
              df  |-> DropNonPositive(HourlyMean(DropDuplicates(SortIndex(all))))]

----------------------------------------------------------------------------
(* resample_to_granularity (data.py): DataFrame.resample(freq).agg(f) with *)
(* freq D, W-MON, MS, YS (and h, which the query layer may ask for).       *)

\* The aggregator names the resampler accepts (it has a method of that
\* name); any other name raises AttributeError.
PandasAggregators == {"sum", "mean", "max", "min", "count"}

MonthStart(c) == DaysFromCivil(c.y, c.m, 1) * 24

\* The label of the bucket that holds timestamp ts.  D, MS and YS buckets
\* are closed and labelled on the left; W-MON buckets are closed and
\* labelled on the right, the label being the Monday on or after ts's day.
Label(ts, g) ==
    CASE g = "H" -> ts
      [] g = "D" -> DayOf(ts) * 24
      [] g = "W" -> (DayOf(ts) + ((7 - DayOfWeek(ts)) % 7)) * 24
      [] g = "M" -> MonthStart(Civil(DayOf(ts)))
      [] OTHER   -> YearStartDay(YearOf(ts)) * 24

\* The label i buckets after the label l.
LabelAt(l, g, i) ==
    CASE g = "H" -> l + i
      [] g = "D" -> l + 24 * i
      [] g = "W" -> l + 168 * i
      [] g = "M" -> AddMonths(l, i)
      [] OTHER   -> AddMonths(l, 12 * i)

NextLabel(l, g) == LabelAt(l, g, 1)

\* The number of labels from l through last.
LabelCount(l, last, g) ==
    CASE g = "H" -> last - l + 1
      [] g = "D" -> (last - l) \div 24 + 1
      [] g = "W" -> (last - l) \div 168 + 1
      [] g = "M" -> (12 * YearOf(last) + MonthOf(last)) - (12 * YearOf(l) + MonthOf(l)) + 1
      [] OTHER   -> YearOf(last) - YearOf(l) + 1

\* The bucket labelled l holds the timestamps in BinLo(l, g)..BinHi(l, g)-1.
\* A W-MON bucket runs from the Tuesday before its Monday label through
\* the end of that Monday (the right edge is moved to the end of its day).
BinLo(l, g) == IF g = "W" THEN l - 144 ELSE l

BinHi(l, g) == IF g = "W" THEN l + 24 ELSE NextLabel(l, g)

\* Every label from the first timestamp's bucket to the last one's.
LabelsFrom(l, last, g) == [i \in 1..LabelCount(l, last, g) |-> LabelAt(l, g, i - 1)]

BinLabels(index, g) ==
    LabelsFrom(Label(IndexMin(index), g), Label(IndexMax(index), g), g)

\* The reduction of the non-NaN values of one bucket.
Reduce(vals, n, f) ==
    CASE f = "sum"   -> SumRange(vals, 1, n)
      [] f = "count" -> Num(n)
      [] f = "mean"  -> IF n = 0 THEN NaN ELSE FracDiv(SumRange(vals, 1, n), n)
      [] f = "max"   -> IF n = 0 THEN NaN ELSE MaxRange(vals, 1, n)
      [] OTHER       -> IF n = 0 THEN NaN ELSE MinRange(vals, 1, n)

Aggregate(vals, f) == Reduce(vals, Len(vals), f)

ValuesAt(col, pos) == [j \in 1..Len(pos) |-> col[pos[j]]]

\* Mutant: a bucket closed on both sides.
ValuesBetween_Closed(df, lo, hi) ==
    LET In(i) == /\ lo <= df.index[i]
                 /\ df.index[i] <= hi
                 /\ ~IsNaN(df.cols["demand"][i])
    IN  ValuesAt(df.cols["demand"], SelectSeq(Positions(NRows(df)), In))

\* The non-NaN values of column "demand" of the rows with lo <= index < hi.
ValuesBetween(df, lo, hi) ==
    LET In(i) == /\ lo <= df.index[i]
                 /\ df.index[i] < hi
                 /\ ~IsNaN(df.cols["demand"][i])
    IN  ValuesAt(df.cols["demand"], SelectSeq(Positions(NRows(df)), In))

\* The values of the rows of df in the bucket labelled l.
BucketValues(df, l, g) == ValuesBetween(df, BinLo(l, g), BinHi(l, g))

ResampleBins(df, labels, g, f) ==
    [index |-> labels,
     cols  |-> [c \in {"demand"} |->
                  [j \in 1..Len(labels) |->
                      Aggregate(BucketValues(df, labels[j], g), f)]]]

Resample(df, g, f) ==
    IF NRows(df) = 0 THEN EmptySeries
    ELSE ResampleBins(df, BinLabels(df.index, g), g, f)

\* The outcome of resample_to_granularity: [err, df].
ResampleToGranularity(df, g, f) ==
    IF g = "H" THEN [err |-> "", df |-> df]
    ELSE IF f \notin PandasAggregators
    THEN [err |-> "AttributeError", df |-> EmptySeries]
    ELSE [err |-> "", df |-> Resample(df, g, f)]

----------------------------------------------------------------------------
(* build_features (features.py).                                           *)

Demand(t) == t.cols["demand"]

LagName(n) == "lag_" \o ToString(n)

IsWeekend(ts) == IF DayOfWeek(ts) >= 5 THEN 1 ELSE 0

\* The calendar attribute of the index a recipe stores under a column name.
CalendarValue(name, ts) ==
    CASE name = "hour"         -> HourOf(ts)
      [] name = "dow"          -> DayOfWeek(ts)
      [] name = "month"        -> MonthOf(ts)
      [] name = "day_of_year"  -> DayOfYear(ts)
      [] name = "is_weekend"   -> IsWeekend(ts)
      [] name = "week_of_year" -> IsoWeek(ts)
      [] OTHER                 -> QuarterOf(ts)

Calendar(t, name) == [i \in 1..NRows(t) |-> Num(CalendarValue(name, t.index[i]))]

\* Mutant: the trailing window taken without the shift, so that it ends at
\* the current row.
RollFeature_NoShift(t, w) == RollingMean(Demand(t), w)

\* shift(1).rolling(w).mean()
RollFeature(t, w) == RollingMean(Shift(Demand(t), 1), w)

LagFeature(t, n) == Shift(Demand(t), n)

BuildHourlyFeatures(df) ==
    LET f1 == SetCol(df, "hour", Calendar(df, "hour"))
        f2 == SetCol(f1, "dow", Calendar(df, "dow"))
        f3 == SetCol(f2, "month", Calendar(df, "month"))
        f4 == SetCol(f3, "lag_1", LagFeature(df, 1))
        f5 == SetCol(f4, "lag_24", LagFeature(df, 24))
        f6 == SetCol(f5, "lag_168", LagFeature(df, 168))
    IN  SetCol(f6, "roll_24_mean", RollFeature(df, 24))

BuildDailyFeatures(df) ==
    LET f1 == SetCol(df, "dow", Calendar(df, "dow"))
        f2 == SetCol(f1, "month", Calendar(df, "month"))
        f3 == SetCol(f2, "day_of_year", Calendar(df, "day_of_year"))
        f4 == SetCol(f3, "is_weekend", Calendar(df, "is_weekend"))
        f5 == SetCol(f4, "lag_1", LagFeature(df, 1))
        f6 == SetCol(f5, "lag_7", LagFeature(df, 7))
        f7 == SetCol(f6, "roll_7_mean", RollFeature(df, 7))
    IN  SetCol(f7, "roll_30_mean", RollFeature(df, 30))

\* Mutant: lag_52 from 52 rows on.
WeeklyLongLag_From52(n) ==
    IF n >= 52 THEN 52
    ELSE LET max_lag == Min2(n - 1, 52)
         IN  IF max_lag > 4 THEN max_lag ELSE 0

\* The long lag of the weekly recipe: 52 with more than 52 rows, else the
\* fallback min(len - 1, 52) when it exceeds 4, else none (0).
WeeklyLongLag(n) ==
    IF n > 52 THEN 52
    ELSE LET max_lag == Min2(n - 1, 52)
         IN  IF max_lag > 4 THEN max_lag ELSE 0

BuildWeeklyFeatures(df) ==
    LET f1 == SetCol(df, "week_of_year", Calendar(df, "week_of_year"))
        f2 == SetCol(f1, "month", Calendar(df, "month"))
        f3 == SetCol(f2, "quarter", Calendar(df, "quarter"))
        f4 == SetCol(f3, "lag_1", LagFeature(df, 1))
        f5 == SetCol(f4, "lag_4", LagFeature(df, 4))
        long == WeeklyLongLag(NRows(df))
        f6 == IF long > 0 THEN SetCol(f5, LagName(long), LagFeature(df, long))
              ELSE f5
    IN  SetCol(f6, "roll_4_mean", RollFeature(df, 4))

\* Mutant: lag_12 from 12 rows on.
MonthlyLongLag_From12(n) ==
    IF n >= 12 THEN 12
    ELSE LET max_lag == Min2(n - 1, 12)
         IN  IF max_lag > 1 THEN max_lag ELSE 0

\* The long lag of the monthly recipe: 12 with more than 12 rows, else the
\* fallback min(len - 1, 12) when it exceeds 1, else none (0).
MonthlyLongLag(n) ==
    IF n > 12 THEN 12
    ELSE LET max_lag == Min2(n - 1, 12)
         IN  IF max_lag > 1 THEN max_lag ELSE 0

BuildMonthlyFeatures(df) ==
    LET f1 == SetCol(df, "month", Calendar(df, "month"))
        f2 == SetCol(f1, "quarter", Calendar(df, "quarter"))
        f3 == SetCol(f2, "lag_1", LagFeature(df, 1))
        long == MonthlyLongLag(NRows(df))
        f4 == IF long > 0 THEN SetCol(f3, LagName(long), LagFeature(df, long))
              ELSE f3
        f5 == SetCol(f4, "roll_3_mean", RollFeature(df, 3))
    IN  IF NRows(df) > 12 THEN SetCol(f5, "roll_12_mean", RollFeature(df, 12))
        ELSE f5

BuildYearlyFeatures(df) ==
    LET f1 == SetCol(df, "lag_1", LagFeature(df, 1))
    IN  IF NRows(df) > 2 THEN SetCol(f1, "roll_2_mean", RollFeature(df, 2))
        ELSE f1

\* The recipe of granularity g, before the incomplete rows are dropped.
Recipe(df, g) ==
    CASE g = "H" -> BuildHourlyFeatures(df)
      [] g = "D" -> BuildDailyFeatures(df)
      [] g = "W" -> BuildWeeklyFeatures(df)
      [] g = "M" -> BuildMonthlyFeatures(df)
      [] OTHER   -> BuildYearlyFeatures(df)

BuildFeatures(df, g) == DropNa(Recipe(df, g))

----------------------------------------------------------------------------
(* train_test_split_temporal (data.py).                                    *)

\* df.index.max() minus test_periods units of the granularity.
\* Mutant: a month counted as 30 days and a year as 365.
Subtract_FixedDays(mx, k, g) ==
    CASE g = "H" -> mx - k
      [] g = "D" -> mx - 24 * k
      [] g = "W" -> mx - 168 * k
      [] g = "M" -> mx - 24 * 30 * k
      [] OTHER   -> mx - 24 * 365 * k

Subtract(mx, k, g) ==
    CASE g = "H" -> mx - k
      [] g = "D" -> mx - 24 * k
      [] g = "W" -> mx - 168 * k
      [] g = "M" -> AddMonths(mx, 0 - k)
      [] OTHER   -> AddMonths(mx, 0 - 12 * k)

SplitPoint(index, k, g) == Subtract(IndexMax(index), k, g)

\* df[df.index <= split_point]; an empty table has no maximum (NaT), and
\* no row compares to it.
TrainRows(t, k, g) ==
    LET split_point == SplitPoint(t.index, k, g)
        Before(i) == t.index[i] <= split_point
    IN  IF NRows(t) = 0 THEN t
        ELSE TakeRows(t, SelectSeq(Positions(NRows(t)), Before))

\* Mutant: the test side taken from the split point on.
TestRows_Inclusive(t, k, g) ==
    LET split_point == SplitPoint(t.index, k, g)
        After(i) == t.index[i] >= split_point
    IN  IF NRows(t) = 0 THEN t
        ELSE TakeRows(t, SelectSeq(Positions(NRows(t)), After))

\* df[df.index > split_point]
TestRows(t, k, g) ==
    LET split_point == SplitPoint(t.index, k, g)
        After(i) == t.index[i] > split_point
    IN  IF NRows(t) = 0 THEN t
        ELSE TakeRows(t, SelectSeq(Positions(NRows(t)), After))

----------------------------------------------------------------------------
(* The demand source (data.py): the synthetic generator and the source     *)
(* selection.  rng is the state of numpy's global generator: the seed it   *)
(* was last seeded with and the number of values drawn since.  Synthetic   *)
(* demands are kept in whole units.                                        *)

\* 2026-01-01 00:00, a Thursday: the first hour of the synthetic series.
Epoch2026 == DaysFromCivil(2026, 1, 1) * 24

Base == 30000

WeekendReduction == 6000

DefaultDays == 90

\* Value number k of the normal(0, 2500) stream of a seed.
NormalAt(seed, k) == (((seed + 3) * (k * k + 5 * k + 11)) % 5001) - 2500

\* Mutant: the generator left as it is.
Reseed_Keep(st, seed) == st

\* np.random.seed(seed)
Reseed(st, seed) == [seed |-> seed, pos |-> 0]

\* 2500 * sin(pi * (hour - 6) / 12)
DailyPattern(hour) ==
    <<-2500, -2415, -2165, -1768, -1250, -647, 0, 647, 1250, 1768, 2165, 2415,
      2500, 2415, 2165, 1768, 1250, 647, 0, -647, -1250, -1768, -2165, -2415>>[hour + 1]

WeekendEffect(ts) == IF DayOfWeek(ts) >= 5 THEN 0 - WeekendReduction ELSE 0

\* Hour i of the synthetic series, its noise drawn in generator state st.
SyntheticDemand(st, i) ==
    Base + DailyPattern(HourOf(Epoch2026 + i - 1)) + WeekendEffect(Epoch2026 + i - 1)
         + NormalAt(st.seed, st.pos + i)

SyntheticSeries(st, hours) ==
    [index |-> [i \in 1..hours |-> Epoch2026 + i - 1],
     cols  |-> [c \in {"demand"} |-> [i \in 1..hours |-> Num(SyntheticDemand(st, i))]]]

\* The outcome of make_synthetic_hourly_demand in generator state st: the
\* series and the generator state it leaves.
MakeSyntheticHourlyDemand(st, n_days, seed) ==
    [df  |-> SyntheticSeries(Reseed(st, seed), n_days * 24),
     rng |-> [Reseed(st, seed) EXCEPT !.pos = @ + n_days * 24]]

\* df.tail(k)
TailRows(df, k) ==
    [index |-> SubSeq(df.index, Max2(NRows(df) - k, 0) + 1, NRows(df)),
     cols  |-> [c \in DOMAIN df.cols |->
                   SubSeq(df.cols[c], Max2(NRows(df) - k, 0) + 1, NRows(df))]]

NoDays == [given |-> FALSE, value |-> 0]

Days(n) == [given |-> TRUE, value |-> n]

DaysOrDefault(n_days) == IF n_days.given THEN n_days.value ELSE DefaultDays

LastDays(df, n_days) == IF n_days.given THEN TailRows(df, n_days.value * 24) ELSE df

\* The synthetic branch of get_hourly_data.
SyntheticData(st, n_days, seed) ==
    [err |-> ""] @@ MakeSyntheticHourlyDemand(st, DaysOrDefault(n_days), seed)

\* The real branch: the loaded series cut to its last n_days * 24 rows, or
\* the error of the load.
RealData(fs, st, n_days, years) ==
    IF LoadRealDemandData(fs, years).err # ""
    THEN [err |-> LoadRealDemandData(fs, years).err, df |-> EmptySeries, rng |-> st]
    ELSE [err |-> "", df |-> LastDays(LoadRealDemandData(fs, years).df, n_days), rng |-> st]

\* Mutant: a failed real load always answered with synthetic data.
GetHourlyData_AlwaysFallBack(fs, st, source, n_days, years, seed) ==
    IF source = "synthetic" THEN SyntheticData(st, n_days, seed)
    ELSE IF LoadRealDemandData(fs, years).err = "FileNotFoundError"
    THEN SyntheticData(st, n_days, seed)
    ELSE RealData(fs, st, n_days, years)

\* get_minimum_days_for_granularity
GetMinimumDaysForGranularity(g) ==
    CASE g = "H" -> 30
      [] g = "D" -> 60
      [] g = "W" -> 120
      [] g = "M" -> 365
      [] OTHER   -> 1825

\* The outcome of get_hourly_data: [err, df, rng].
GetHourlyData(fs, st, source, n_days, years, seed) ==
    IF source = "synthetic" THEN SyntheticData(st, n_days, seed)
    ELSE IF source = "real" THEN RealData(fs, st, n_days, years)
    ELSE IF LoadRealDemandData(fs, years).err = "FileNotFoundError"
    THEN SyntheticData(st, n_days, seed)
    ELSE RealData(fs, st, n_days, years)

----------------------------------------------------------------------------
(* The output store (io.py) and its reader (api/main.py).  A file type, a  *)
(* model identifier and a file stem are sequences of characters; `outputs` *)
(* maps the path <<folder, stem>> of the file folder/stem.json to its JSON *)
(* text, folder "." being the outputs root.  A dict is a function of its   *)
(* keys; a JSON text is the set of its parts, the members <<key, value>> of *)
(* its object and the closing brace.  A file opened for writing is empty   *)
(* until the text is dumped into it.                                       *)

MetricsType == <<"m", "e", "t", "r", "i", "c", "s">>

PredsType == <<"p", "r", "e", "d", "s">>

FileTypes == {MetricsType, PredsType}

Root == "."

FolderName(g) ==
    CASE g = "H" -> "hourly"
      [] g = "D" -> "daily"
      [] g = "W" -> "weekly"
      [] g = "M" -> "monthly"
      [] OTHER   -> "yearly"

ConfigName(g) == FolderName(g)

DigitChars == <<"0", "1", "2", "3", "4", "5", "6", "7", "8", "9">>

\* str(n) of a natural number.
RECURSIVE Digits(_)
Digits(n) ==
    IF n < 10 THEN <<DigitChars[n + 1]>>
    ELSE Digits(n \div 10) \o <<DigitChars[(n % 10) + 1]>>

\* f"{file_type}_{model}_{horizon}" (the file name without ".json").
Stem(file_type, model, horizon) ==
    file_type \o <<"_">> \o model \o <<"_">> \o Digits(horizon)

\* Mutant: the folder named by the granularity code.
GetOutputPath_ByCode(g, file_type, model, horizon) ==
    <<g, Stem(file_type, model, horizon)>>

GetOutputPath(g, file_type, model, horizon) ==
    <<FolderName(g), Stem(file_type, model, horizon)>>

\* The path save_outputs writes (it builds the path itself).
SavePath(g, file_type, model, horizon) ==
    <<FolderName(g), file_type \o <<"_">> \o model \o <<"_">> \o Digits(horizon)>>

ClosingBrace == <<"}", "">>

\* The content of a file that open(path, "w") has just truncated.
EmptyFile == {}

JsonDump(doc) == {<<k, doc[k]>> : k \in DOMAIN doc} \cup {ClosingBrace}

\* json.JSONDecodeError, a subclass of ValueError.
JSONDecodeError == [error |-> "JSONDecodeError"]

Members(text) == text \ {ClosingBrace}

\* json.load: the dict of a complete text; a text that does not end with
\* its closing brace raises JSONDecodeError.
JsonLoad(text) ==
    IF ClosingBrace \notin text THEN JSONDecodeError
    ELSE [k \in {mem[1] : mem \in Members(text)} |->
             (CHOOSE mem \in Members(text) : mem[1] = k)[2]]

KeyFields(g, model, horizon) ==
    [model |-> model, granularity |-> g, granularity_name |-> ConfigName(g),
     horizon |-> horizon]

\* {key fields, **metrics}, then update(extra_metrics): later keys win.
MetricsOut(g, model, horizon, metrics, extra_metrics) ==
    extra_metrics @@ metrics @@ KeyFields(g, model, horizon)

PredsOut(g, model, horizon, predictions) ==
    [series |-> predictions] @@ KeyFields(g, model, horizon)

\* Mutant: a write that keeps the members of the text it finds.
WriteFile_Merge(fs, path, text) ==
    (path :> (IF path \in DOMAIN fs THEN fs[path] \cup text ELSE text)) @@ fs

\* open(path, "w") and json.dump: the file holds the new text only.
WriteFile(fs, path, text) == (path :> text) @@ fs

\* The outputs directory after save_outputs.
SaveOutputs(fs, g, model, horizon, metrics, predictions, extra_metrics) ==
    WriteFile(
        WriteFile(fs, SavePath(g, MetricsType, model, horizon),
                  JsonDump(MetricsOut(g, model, horizon, metrics, extra_metrics))),
        SavePath(g, PredsType, model, horizon),
        JsonDump(PredsOut(g, model, horizon, predictions)))

\* None of a load.
None == [none |-> TRUE]

LoadOutputs(fs, g, file_type, model, horizon) ==
    IF GetOutputPath(g, file_type, model, horizon) \notin DOMAIN fs THEN None
    ELSE JsonLoad(fs[GetOutputPath(g, file_type, model, horizon)])

LoadLegacyOutputs(fs, file_type, model, horizon) ==
    IF <<Root, Stem(file_type, model, horizon)>> \notin DOMAIN fs THEN None
    ELSE JsonLoad(fs[<<Root, Stem(file_type, model, horizon)>>])

\* stem.split("_")
RECURSIVE SplitFrom(_, _, _)
SplitFrom(stem, i, part) ==
    IF i > Len(stem) THEN <<part>>
    ELSE IF stem[i] = "_" THEN <<part>> \o SplitFrom(stem, i + 1, <<>>)
    ELSE SplitFrom(stem, i + 1, Append(part, stem[i]))

Split(stem) == SplitFrom(stem, 1, <<>>)

DigitValue(c) == (CHOOSE d \in 1..10 : DigitChars[d] = c) - 1

IsDigit(c) == \E d \in 1..10 : DigitChars[d] = c

\* int(part) succeeds on a non-empty run of digits.
IsInt(part) == Len(part) > 0 /\ \A i \in 1..Len(part) : IsDigit(part[i])

RECURSIVE IntOf(_, _)
IntOf(part, n) ==
    IF n = 0 THEN 0 ELSE 10 * IntOf(part, n - 1) + DigitValue(part[n])

\* folder.glob("metrics_*.json"): the stems of the matching files.
GlobMetrics(fs, folder) ==
    {p[2] : p \in {q \in DOMAIN fs :
                     /\ q[1] = folder
                     /\ Len(q[2]) >= Len(MetricsType) + 1
                     /\ SubSeq(q[2], 1, Len(MetricsType) + 1) = MetricsType \o <<"_">>}}

\* The stems whose name parses as metrics_{model}_{horizon}.
Parsed(stems) ==
    {st \in stems : Len(Split(st)) >= 3 /\ IsInt(Split(st)[3])}

ModelOf(st) == Split(st)[2]

HorizonOf(st) == IntOf(Split(st)[3], Len(Split(st)[3]))

FolderModels(fs, folder) ==
    {[model |-> ModelOf(st), horizon |-> HorizonOf(st)] :
        st \in Parsed(GlobMetrics(fs, folder))}

LegacyModels(fs, existing) ==
    {[model |-> ModelOf(st), horizon |-> HorizonOf(st), legacy |-> TRUE] :
        st \in {x \in Parsed(GlobMetrics(fs, Root)) :
                   [model |-> ModelOf(x), horizon |-> HorizonOf(x)] \notin existing}}

\* list_available_models(): granularity code -> the entries of its list
\* (glob yields the files in no particular order).
ListAvailableModels(fs) ==
    [g \in Granularities |->
        IF g = "H"
        THEN FolderModels(fs, FolderName(g))
                 \cup LegacyModels(fs, FolderModels(fs, FolderName(g)))
        ELSE FolderModels(fs, FolderName(g))]

\* code.upper()
Upper(code) ==
    CASE code = "h" -> "H"
      [] code = "d" -> "D"
      [] code = "w" -> "W"
      [] code = "m" -> "M"
      [] code = "y" -> "Y"
      [] code = "q" -> "Q"
      [] OTHER      -> code

\* Granularity.from_code: the granularity, or "ValueError".
FromCode(code) ==
    IF Upper(code) \in Granularities THEN Upper(code) ELSE "ValueError"

BadRequest == "400"

NotFound == "404"

Ok == "200"

\* The answer to an exception no handler catches.
ServerError == "500"

HttpException(status) == [status |-> status, body |-> None]

\* The legacy record with the granularity fields added.
WithHourlyFields(data) ==
    [granularity |-> "H", granularity_name |-> "hourly"] @@ data

\* The answer of _read_output: the record, or the HTTPException raised.
\* The try block holds from_code and load_outputs, and `except ValueError`
\* catches the JSONDecodeError of the load as well; the legacy load is
\* outside it.
ReadOutput(fs, granularity_code, file_type, model, horizon) ==
    IF FromCode(granularity_code) = "ValueError" THEN HttpException(BadRequest)
    ELSE IF LoadOutputs(fs, FromCode(granularity_code), file_type, model, horizon)
               = JSONDecodeError
    THEN HttpException(BadRequest)
    ELSE IF LoadOutputs(fs, FromCode(granularity_code), file_type, model, horizon) # None
    THEN [status |-> Ok,
          body |-> LoadOutputs(fs, FromCode(granularity_code), file_type, model, horizon)]
    ELSE IF granularity_code = "H"
            /\ LoadLegacyOutputs(fs, file_type, model, horizon) = JSONDecodeError
    THEN HttpException(ServerError)
    ELSE IF granularity_code = "H"
            /\ LoadLegacyOutputs(fs, file_type, model, horizon) # None
    THEN [status |-> Ok,
          body |-> WithHourlyFields(LoadLegacyOutputs(fs, file_type, model, horizon))]
    ELSE HttpException(NotFound)

----------------------------------------------------------------------------
(* The forecast metrics (metrics.py).  An argument of compute_all_metrics  *)
(* is a sequence of non-negative values given in thousandths; np.asarray   *)
(* makes it the array of their doubles.  A returned metric is a cell: the  *)
(* decimal with two digits that round() gives, or NaN.                     *)

AsArray(a) == [i \in 1..Len(a) |-> FromDecimal(a[i], 1000)]

\* numpy's broadcasting of two one-dimensional arrays: the lengths must be
\* equal unless one of them is 1, and a single element is repeated.
Broadcastable(la, lb) == la = lb \/ la = 1 \/ lb = 1

BroadcastLen(la, lb) == IF la = 1 THEN lb ELSE la

At(a, i) == IF Len(a) = 1 THEN a[1] ELSE a[i]

Indices(t, p) == 1..BroadcastLen(Len(t), Len(p))

\* np.add.reduce over fewer than 8 elements: one pass from the left.
RECURSIVE SumTo(_, _)
SumTo(a, n) == IF n = 0 THEN FZero ELSE FAdd(SumTo(a, n - 1), a[n])

\* np.mean of a non-empty array.
NpMean(a) == FDiv(SumTo(a, Len(a)), FromInt(Len(a)))

\* eps = 1e-8.
Eps == FromDecimal(1, 100000000)

AbsErrors(t, p) == [i \in Indices(t, p) |-> FAbsDiff(At(t, i), At(p, i))]

Squared(d) == [i \in 1..Len(d) |-> FMul(d[i], d[i])]

SmapeTerms(t, p) ==
    [i \in Indices(t, p) |->
        FDiv(FAbsDiff(At(p, i), At(t, i)),
             FAdd(FDiv(FAdd(At(t, i), At(p, i)), FromInt(2)), Eps))]

MapeTerms(t, p) ==
    [i \in Indices(t, p) |->
        FDiv(FAbsDiff(At(t, i), At(p, i)), FAdd(At(t, i), Eps))]

Smape(t, p) == FMul(NpMean(SmapeTerms(t, p)), FromInt(100))

Mape(t, p) == FMul(NpMean(MapeTerms(t, p)), FromInt(100))

Mae(t, p) == NpMean(AbsErrors(t, p))

Rmse(t, p) == FSqrt(NpMean(Squared(AbsErrors(t, p))))

Rounded(x) == Frac(Round2(x), 100)

ValueError == "ValueError"

MetricsRecord(mae, rmse, smape, mape) ==
    [err |-> "", called |-> TRUE,
     mae |-> mae, rmse |-> rmse, smape |-> smape, mape |-> mape]

\* The metrics of two arrays that broadcast to at least one element.
AllMetrics(t, p) ==
    MetricsRecord(Rounded(Mae(t, p)), Rounded(Rmse(t, p)),
                  Rounded(Smape(t, p)), Rounded(Mape(t, p)))

\* compute_all_metrics: the subtraction of mae() raises when the arrays do
\* not broadcast, and the mean of no element is nan.
ComputeAllMetrics(yt, yp) ==
    IF ~Broadcastable(Len(yt), Len(yp))
    THEN [err |-> ValueError, called |-> TRUE]
    ELSE IF BroadcastLen(Len(yt), Len(yp)) = 0
    THEN MetricsRecord(NaN, NaN, NaN, NaN)
    ELSE AllMetrics(AsArray(yt), AsArray(yp))

----------------------------------------------------------------------------
(* predict_aggregated (api/main.py): the stored hourly predictions         *)
(* resampled to the target granularity.  A timestamp stays the hour it is. *)

\* df.resample(freq) of one column of the frame built from the series.
AggregatedColumn(rows, name, g, f) ==
    Resample([index |-> [i \in 1..Len(rows) |-> rows[i].t],
              cols  |-> [c \in {"demand"} |->
                           [i \in 1..Len(rows) |-> rows[i][name]]]], g, f)

\* round(value, 2) of a cell: the value as the double sum / count.
RoundCell(c) ==
    IF IsNaN(c) THEN NaN ELSE Rounded(FDiv(FromInt(c[1]), FromInt(c[2])))

AggregatedSeries(rows, g, f) ==
    [j \in 1..NRows(AggregatedColumn(rows, "actual", g, f)) |->
        [t         |-> AggregatedColumn(rows, "actual", g, f).index[j],
         actual    |-> RoundCell(Demand(AggregatedColumn(rows, "actual", g, f))[j]),
         predicted |-> RoundCell(Demand(AggregatedColumn(rows, "predicted", g, f))[j])]]

\* hourly_data.get("series", [])
SeriesOf(data) == IF "series" \in DOMAIN data THEN data.series ELSE <<>>

\* The answer once the hourly predictions have been read.
AggregateHourly(hourly_data, model, horizon, target_granularity, aggregation) ==
    IF hourly_data.status # Ok THEN hourly_data
    ELSE IF SeriesOf(hourly_data.body) = <<>> THEN HttpException(NotFound)
    ELSE IF aggregation \notin {"sum", "mean"} THEN HttpException(BadRequest)
    ELSE [status |-> Ok,
          body   |-> [model |-> model, source_granularity |-> "H",
                      source_horizon |-> horizon,
                      target_granularity |-> target_granularity,
                      target_granularity_name |-> ConfigName(FromCode(target_granularity)),
                      aggregation |-> aggregation,
                      series |-> AggregatedSeries(SeriesOf(hourly_data.body),
                                                  FromCode(target_granularity),
                                                  aggregation)]]

\* The answer of predict_aggregated: the record, or the HTTPException
\* raised.  The hourly target is recognised by the string "H" itself.
PredictAggregated(fs, model, horizon, target_granularity, aggregation) ==
    IF target_granularity = "H" THEN HttpException(BadRequest)
    ELSE IF FromCode(target_granularity) = "ValueError" THEN HttpException(BadRequest)
    ELSE AggregateHourly(ReadOutput(fs, "H", PredsType, model, horizon),
                         model, horizon, target_granularity, aggregation)

----------------------------------------------------------------------------
(* The command lines (train_all.py, train_xgb.py).  A command line is the  *)
(* sequence of its arguments after the script; an argparse parser is the   *)
(* sequence of its options.  An option is written in full.                 *)

\* The arguments that begin with a dash.
Dashed ==
    {"--granularities", "--granularity", "-g", "--models", "-m", "--parallel", "-p",
     "--seed", "--source", "-s", "--horizon", "-hz", "--days", "-d", "--verbose"}

\* The numbers whose decimal numerals occur as arguments.
Numbers == {0, 7, 42, 90, 365, 730, 1825}

IsNumeral(tok) == \E n \in Numbers : ToString(n) = tok

\* int(tok)
IntValue(tok) == CHOOSE n \in Numbers : ToString(n) = tok

\* SystemExit(2) of parser.error().
UsageError == "SystemExit(2)"

GRANULARITIES == <<"H", "D", "W", "M", "Y">>

\* MODELS: the training script of each model.
MODELS ==
    [xgb |-> "train_xgb.py", rf |-> "train_rf.py", linear |-> "train_baseline_linear.py"]

\* list(MODELS.keys())
ModelNames == <<"xgb", "rf", "linear">>

DAYS_PER_GRANULARITY == [H |-> 90, D |-> 365, W |-> 730, M |-> 730, Y |-> 1825]

Range(seq) == {seq[i] : i \in 1..Len(seq)}

\* An option: nargs is "0" (store_true), "1" (one value) or "+".
Option(names, dest, nargs, type, choices, default) ==
    [names |-> names, dest |-> dest, nargs |-> nargs, type |-> type,
     choices |-> choices, default |-> default]

\* No restriction of the values.
AnyValue == {}

TrainAllParser ==
    <<Option({"--granularities", "-g"}, "granularities", "+", "str",
             Range(GRANULARITIES), GRANULARITIES),
      Option({"--models", "-m"}, "models", "+", "str", Range(ModelNames), ModelNames),
      Option({"--parallel", "-p"}, "parallel", "0", "bool", AnyValue, FALSE),
      Option({"--seed"}, "seed", "1", "int", AnyValue, 42),
      Option({"--source", "-s"}, "source", "1", "str",
             {"real", "synthetic", "auto"}, "auto")>>

\* None of an option that was not given (train_xgb.py); a horizon and a
\* number of days of 0 are taken for it as well (`args.days or ...`).
NotGiven == 0

XgbParser ==
    <<Option({"--granularity", "-g"}, "granularity", "1", "str",
             Range(GRANULARITIES), "H"),
      Option({"--horizon", "-hz"}, "horizon", "1", "int", AnyValue, NotGiven),
      Option({"--days", "-d"}, "days", "1", "int", AnyValue, NotGiven),
      Option({"--seed"}, "seed", "1", "int", AnyValue, 42)>>

\* The parser of train_rf.py and train_baseline_linear.py: the options of
\* train_xgb.py and the data source.
OtherParser ==
    XgbParser \o <<Option({"--source", "-s"}, "source", "1", "str",
                          {"real", "synthetic", "auto"}, "auto")>>

\* The namespace of the defaults.
Defaults(parser) ==
    [d \in {parser[k].dest : k \in 1..Len(parser)} |->
        (CHOOSE k \in 1..Len(parser) : parser[k].dest = d)]

DefaultOf(parser, d) == parser[Defaults(parser)[d]].default

\* The option an argument names, 0 if none.
OptionOf(parser, tok) ==
    IF \E k \in 1..Len(parser) : tok \in parser[k].names
    THEN CHOOSE k \in 1..Len(parser) : tok \in parser[k].names
    ELSE 0

\* The number of values from argument i on, up to the next dashed one.
RECURSIVE ValuesFrom(_, _)
ValuesFrom(tokens, i) ==
    IF i > Len(tokens) \/ tokens[i] \in Dashed THEN 0
    ELSE 1 + ValuesFrom(tokens, i + 1)

\* A value passes the type conversion and the choices.
Valid(opt, tok) ==
    /\ opt.type = "int" => IsNumeral(tok)
    /\ opt.choices # AnyValue => tok \in opt.choices

Converted(opt, tok) == IF opt.type = "int" THEN IntValue(tok) ELSE tok

\* parse_args from argument i on; `given` maps the destination of every
\* option that has occurred to the tuple of its value.
RECURSIVE ParseFrom(_, _, _, _)
ParseFrom(parser, tokens, i, given) ==
    IF i > Len(tokens) THEN [err |-> "", given |-> given]
    ELSE IF OptionOf(parser, tokens[i]) = 0
    THEN [err |-> UsageError, given |-> given]
    ELSE IF parser[OptionOf(parser, tokens[i])].nargs = "0"
    THEN ParseFrom(parser, tokens, i + 1,
                   (parser[OptionOf(parser, tokens[i])].dest :> <<TRUE>>) @@ given)
    ELSE IF ValuesFrom(tokens, i + 1) = 0
    THEN [err |-> UsageError, given |-> given]
    ELSE IF parser[OptionOf(parser, tokens[i])].nargs = "1"
    THEN IF ~Valid(parser[OptionOf(parser, tokens[i])], tokens[i + 1])
         THEN [err |-> UsageError, given |-> given]
         ELSE ParseFrom(parser, tokens, i + 2,
                        (parser[OptionOf(parser, tokens[i])].dest :>
                            <<Converted(parser[OptionOf(parser, tokens[i])],
                                        tokens[i + 1])>>) @@ given)
    ELSE IF \E j \in 1..ValuesFrom(tokens, i + 1) :
               ~Valid(parser[OptionOf(parser, tokens[i])], tokens[i + j])
    THEN [err |-> UsageError, given |-> given]
    ELSE ParseFrom(parser, tokens, i + 1 + ValuesFrom(tokens, i + 1),
                   (parser[OptionOf(parser, tokens[i])].dest :>
                       <<[j \in 1..ValuesFrom(tokens, i + 1) |-> tokens[i + j]]>>)
                       @@ given)

\* parser.parse_args(): the error, or the value of every destination (the
\* last occurrence of an option wins, an absent option has its default).
Namespace(parser, r) ==
    [err    |-> r.err,
     parsed |-> TRUE,
     ns     |-> [d \in DOMAIN Defaults(parser) |->
                   IF d \in DOMAIN r.given THEN r.given[d][1]
                   ELSE DefaultOf(parser, d)]]

ParseArgs(parser, tokens) == Namespace(parser, ParseFrom(parser, tokens, 1, <<>>))

\* config.default_horizon
DefaultHorizon(g) ==
    CASE g = "H" -> 24
      [] g = "D" -> 7
      [] g = "W" -> 4
      [] g = "M" -> 3
      [] OTHER   -> 1

\* The task list of train_all's main: every model for every granularity,
\* in the order of the two lists.
Tasks(ns) ==
    [t \in 1..(Len(ns.granularities) * Len(ns.models)) |->
        [model       |-> ns.models[((t - 1) % Len(ns.models)) + 1],
         granularity |-> ns.granularities[((t - 1) \div Len(ns.models)) + 1],
         days        |-> DAYS_PER_GRANULARITY[
                             ns.granularities[((t - 1) \div Len(ns.models)) + 1]],
         seed        |-> ns.seed,
         source      |-> ns.source]]

\* The command line train_model runs the script with.
TrainModelCmd(task) ==
    <<"--granularity", task.granularity, "--days", ToString(task.days),
      "--seed", ToString(task.seed), "--source", task.source>>

\* The source argument of get_data_for_granularity when none is passed.
DefaultSource == "auto"

\* A run of a training script: its return code, the source its data came
\* from and the key it saved its outputs under (none when it failed).
Failed(code) == [returncode |-> code, wrote |-> FALSE, key |-> <<>>, used |-> ""]

\* train_xgb.py: main() passes no source to get_data_for_granularity.
\* horizon = args.horizon or config.default_horizon
HorizonOr(ns) ==
    IF ns.horizon = NotGiven THEN DefaultHorizon(ns.granularity) ELSE ns.horizon

\* train_xgb.py after parse_args: main() passes no source to
\* get_data_for_granularity.
XgbMain(a) ==
    IF a.err # "" THEN Failed(2)
    ELSE [returncode |-> 0, wrote |-> TRUE, used |-> DefaultSource,
          key |-> <<a.ns.granularity, "xgb", HorizonOr(a.ns)>>]

\* train_rf.py and train_baseline_linear.py after parse_args.
OtherMain(model, a) ==
    IF a.err # "" THEN Failed(2)
    ELSE [returncode |-> 0, wrote |-> TRUE, used |-> a.ns.source,
          key |-> <<a.ns.granularity, model, HorizonOr(a.ns)>>]

\* subprocess.run of the script of the task's model.
RunScript(task) ==
    IF MODELS[task.model] = "train_xgb.py"
    THEN XgbMain(ParseArgs(XgbParser, TrainModelCmd(task)))
    ELSE OtherMain(task.model, ParseArgs(OtherParser, TrainModelCmd(task)))

\* The key the job of a task is launched to write: the script is run
\* without --horizon.
OutputKey(task) == <<task.granularity, task.model, DefaultHorizon(task.granularity)>>

----------------------------------------------------------------------------
(* The data directories the runs start from.  A directory holds n source   *)
(* hours, one every `unit` (hour, day, week, month, year) from `start`;    *)
(* an hour has one half-hour record or two, and hour number `bad` (if any) *)
(* has a placeholder record only (demand 0, or no demand at all).          *)

\* Monday 2026-06-01 22:00 and Thursday 2026-12-31 22:00: two hours before
\* the end of a weekly bucket, and of a day, a month and a year.
Starts == {DaysFromCivil(2026, 6, 1) * 24 + 22, DaysFromCivil(2026, 12, 31) * 24 + 22}

AddUnits(ts, unit, i) ==
    CASE unit = "H" -> ts + i
      [] unit = "D" -> ts + 24 * i
      [] unit = "W" -> ts + 168 * i
      [] unit = "M" -> AddMonths(ts, i)
      [] OTHER      -> AddMonths(ts, 12 * i)

\* The demand of source hour i: 2..6, unequal for neighbouring hours.
Val(i, seed) == 2 + ((7 * i + 3 * seed) % 5)

\* Half-hour record j of the directory: the first (half = 0) or second
\* half-hour record of source hour i.
Record(ts, i, half, seed, bad, badcell) ==
    [date   |-> DayOf(ts),
     period |-> 2 * HourOf(ts) + 1 + half,
     nd     |-> IF i = bad THEN badcell
                ELSE IF i % 2 = 1 THEN Num(Val(i, seed))
                ELSE Num(Val(i, seed) - 1 + 2 * half)]

\* Odd hours and the bad hour have their first half-hour record only.
GenRecords(unit, n, start, seed, bad, badcell) ==
    LET Present(j) == j % 2 = 1 \/ (((j + 1) \div 2) % 2 = 0 /\ (j + 1) \div 2 # bad)
        js == SelectSeq(Positions(2 * n), Present)
    IN  [x \in 1..Len(js) |->
            Record(AddUnits(start, unit, (js[x] + 1) \div 2 - 1),
                   (js[x] + 1) \div 2, (js[x] + 1) % 2, seed, bad, badcell)]

\* One csv file per calendar year that has records.
DataDir(recs) ==
    LET Year(r) == Civil(r.date).y
    IN  [y \in {Year(recs[i]) : i \in 1..Len(recs)} |->
            SelectSeq(recs, LAMBDA r : Year(r) = y)]

Coarser(unit) ==
    CASE unit = "H" -> {"H", "D", "W", "M", "Y"}
      [] unit = "D" -> {"D", "W", "M", "Y"}
      [] unit = "W" -> {"W", "M", "Y"}
      [] unit = "M" -> {"M", "Y"}
      [] OTHER      -> {"Y"}

\* The longest series of the feature runs, per granularity.
MaxRows(g) ==
    CASE g = "H" -> MaxHours
      [] g = "D" -> MaxDays
      [] g = "W" -> MaxWeeks
      [] g = "M" -> MaxMonths
      [] OTHER   -> MaxYears

Aggregators == PandasAggregators \cup {"bogus"}

NoYears == [given |-> FALSE, list |-> <<>>]

\* No answer of the query layer yet.
NoCall == [status |-> "", body |-> None]

NoListing == [g \in {} |-> {}]

NoFiles == [p \in {} |-> {}]

\* No save_outputs call in progress.
NoSave == [at |-> "idle", g |-> "H", model |-> <<>>, horizon |-> 0, v |-> 0]

\* A reader that has loaded nothing yet.
NoRead ==
    [at |-> "idle", g |-> "H", model |-> <<>>, horizon |-> 0,
     metrics |-> None, preds |-> None]

\* An empty outputs directory that no operation has touched.
StoreIdle ==
    /\ outputs = NoFiles
    /\ saved = NoFiles
    /\ resp = NoCall
    /\ listing = NoListing
    /\ writer = NoSave
    /\ reader = NoRead

\* train_all.py not started.
NoArgs == [err |-> "", parsed |-> FALSE]

TrainIdle ==
    /\ argv = <<>>
    /\ args = NoArgs
    /\ jobs = <<>>

\* No call of the generator yet.  A return records its arguments, the
\* arguments of the call before it and whether it repeats an earlier call.
NoReturn ==
    [n_days |-> 0, seed |-> 0, df |-> EmptySeries, called |-> FALSE,
     repeated |-> FALSE, before |-> <<0, 0>>]

NoRequest == [source |-> ""]

\* A generator nothing has been drawn from; no call of the demand source.
SourceIdle ==
    /\ rng = [seed |-> 0, pos |-> 0]
    /\ synthetic = NoReturn
    /\ calls = NoFiles
    /\ request = NoRequest

NoResult == [err |-> "", called |-> FALSE]

MetricsIdle ==
    /\ y_true = <<>>
    /\ y_pred = <<>>
    /\ result = NoResult

Fresh ==
    /\ StoreIdle
    /\ TrainIdle
    /\ SourceIdle
    /\ MetricsIdle
    /\ pc = "start"
    /\ err = ""
    /\ hourly = EmptySeries
    /\ series = EmptySeries
    /\ feat = EmptySeries
    /\ train = EmptySeries
    /\ test = EmptySeries
    /\ splitOf = ""
    /\ testPeriods = 0

\* The model identifiers, horizons and contents of the store runs.
RF == <<"r", "f">>

RF_2 == <<"r", "f", "_", "2">>

Models == {RF, RF_2}

Horizons == {2, 24}

Contents == 1..MaxContents

MetricsResult(v) ==
    [mae |-> Num(v), rmse |-> Num(v + 1), smape |-> Num(v + 2), mape |-> Num(v + 3)]

Predictions(v) ==
    [i \in 1..v |-> [t |-> Epoch2026 + i, actual |-> Num(i), predicted |-> Num(i + v)]]

\* extra_metrics: None for the first content, one extra field for the others.
ExtraMetrics(v) == IF v = 1 THEN NoFiles ELSE [trained_on |-> "real"]

\* A legacy file (written before the granularity folders): no granularity
\* fields.
LegacyMetrics(model, horizon) ==
    [model |-> model, horizon |-> horizon] @@ MetricsResult(1)

LegacyPreds(model, horizon) ==
    [model |-> model, horizon |-> horizon, series |-> Predictions(1)]

LegacyFiles(model, horizon) ==
    WriteFile(WriteFile(NoFiles, <<Root, Stem(MetricsType, model, horizon)>>,
                        JsonDump(LegacyMetrics(model, horizon))),
              <<Root, Stem(PredsType, model, horizon)>>,
              JsonDump(LegacyPreds(model, horizon)))

Codes == {"H", "h", "D", "q"}

\* The pipeline at rest.
PipelineIdle ==
    /\ files = NoFiles
    /\ gran = "H"
    /\ agg = "sum"
    /\ pc = "idle"
    /\ err = ""
    /\ hourly = EmptySeries
    /\ series = EmptySeries
    /\ feat = EmptySeries
    /\ train = EmptySeries
    /\ test = EmptySeries
    /\ splitOf = ""
    /\ testPeriods = 0

\* An outputs directory that is empty or holds the legacy files of one
\* model.
InitStore ==
    /\ TrainIdle
    /\ PipelineIdle
    /\ outputs \in {NoFiles, LegacyFiles(RF, 24)}
    /\ saved = NoFiles
    /\ resp = NoCall
    /\ listing = NoListing
    /\ writer = NoSave
    /\ reader = NoRead
    /\ SourceIdle
    /\ MetricsIdle

\* The seeds of the source runs; 42 is the default.
Seeds == {0, 1, 42}

\* The states numpy's generator may be in when the demand source is called.
RngStates == {[seed |-> 7, pos |-> 0], [seed |-> 42, pos |-> 24]}

\* Calls of the synthetic generator in any order.
InitSynth ==
    /\ TrainIdle
    /\ PipelineIdle
    /\ StoreIdle
    /\ MetricsIdle
    /\ rng \in RngStates
    /\ synthetic = NoReturn
    /\ calls = NoFiles
    /\ request = NoRequest

DayLimits == {NoDays} \cup {Days(n) : n \in 0..MaxSynthDays}

YearChoices == {NoYears, [given |-> TRUE, list |-> <<2025>>],
                [given |-> TRUE, list |-> <<2025, 2026>>]}

Sources == {"real", "synthetic", "auto"}

\* One call of get_hourly_data on a data directory that is empty, holds
\* some hours of 2026, or holds a file of placeholder records only.
InitSource ==
    /\ TrainIdle
    /\ \E n \in 0..MaxSourceHours, bad \in {0, 1} :
          /\ bad <= n
          /\ bad = 1 => n = 1
          /\ files = DataDir(GenRecords("H", n, Epoch2026 + 22, 0, bad, Num(0)))
    /\ gran = "H"
    /\ agg = "sum"
    /\ pc = "start"
    /\ err = ""
    /\ hourly = EmptySeries
    /\ series = EmptySeries
    /\ feat = EmptySeries
    /\ train = EmptySeries
    /\ test = EmptySeries
    /\ splitOf = ""
    /\ testPeriods = 0
    /\ StoreIdle
    /\ MetricsIdle
    /\ rng \in RngStates
    /\ synthetic = NoReturn
    /\ calls = NoFiles
    /\ request = NoRequest

\* Short series of every unit, resampled to every coarser granularity with
\* every aggregator.
Init ==
    /\ \E unit \in Granularities, n \in 0..MaxPoints, start \in Starts,
          bad \in 0..MaxPoints, badcell \in {NaN, Num(0)} :
          /\ bad <= n
          /\ bad = 0 => badcell = NaN
          /\ files = DataDir(GenRecords(unit, n, start, 0, bad, badcell))
          /\ gran \in Coarser(unit)
    /\ agg \in Aggregators
    /\ Fresh

\* Long series at their own granularity: enough rows for every lag.
InitFeat ==
    /\ \E n \in 0..MaxHours, bad \in 0..MaxHours, seed \in {0, 1} :
          /\ gran \in Granularities
          /\ n <= MaxRows(gran)
          /\ bad \in {0, n - 1}
          /\ files = DataDir(GenRecords(gran, n, Epoch2026, seed, bad, Num(0)))
    /\ agg \in {"sum", "mean"}
    /\ gran = "H" => agg = "sum"
    /\ Fresh

----------------------------------------------------------------------------
(* The operations.                                                         *)

load_real_demand_data ==
    /\ pc = "start"
    /\ LET r == LoadRealDemandData(files, NoYears)
       IN  /\ err' = r.err
           /\ hourly' = r.df
           /\ pc' = IF r.err = "" THEN "loaded" ELSE "error"
    /\ UNCHANGED <<files, gran, agg, series, feat, splitOf, testPeriods,
                   train, test>>
    /\ UNCHANGED <<storeVars, sourceVars, metricsVars, trainVars>>

resample_to_granularity ==
    /\ pc = "loaded"
    /\ LET r == ResampleToGranularity(hourly, gran, agg)
       IN  /\ err' = r.err
           /\ series' = r.df
           /\ pc' = IF r.err = "" THEN "resampled" ELSE "error"
    /\ UNCHANGED <<files, gran, agg, hourly, feat, splitOf, testPeriods,
                   train, test>>
    /\ UNCHANGED <<storeVars, sourceVars, metricsVars, trainVars>>

build_features ==
    /\ pc = "resampled"
    /\ feat' = BuildFeatures(series, gran)
    /\ pc' = "features"
    /\ UNCHANGED <<files, gran, agg, err, hourly, series, splitOf,
                   testPeriods, train, test>>
    /\ UNCHANGED <<storeVars, sourceVars, metricsVars, trainVars>>

\* The split of the feature table (as the training scripts call it, with
\* the default test periods of the granularity or others) or of the
\* resampled series itself.
train_test_split_temporal ==
    /\ pc \in {"resampled", "features"}
    /\ LET df == IF pc = "features" THEN feat ELSE series
       IN  \E k \in (0..MaxTestPeriods) \cup {NRows(df), DefaultTestPeriods(gran)} :
              /\ testPeriods' = k
              /\ train' = TrainRows(df, k, gran)
              /\ test' = TestRows(df, k, gran)
    /\ splitOf' = IF pc = "features" THEN "feat" ELSE "series"
    /\ pc' = "split"
    /\ UNCHANGED <<files, gran, agg, err, hourly, series, feat>>
    /\ UNCHANGED <<storeVars, sourceVars, metricsVars, trainVars>>

Next ==
    \/ load_real_demand_data
    \/ resample_to_granularity
    \/ build_features
    \/ train_test_split_temporal

Spec == Init /\ [][Next]_vars

SpecFeat == InitFeat /\ [][Next]_vars

\* One training run saves its outputs.
save_outputs ==
    /\ resp = NoCall
    /\ listing = NoListing
    /\ \E g \in Granularities, model \in Models, horizon \in Horizons, v \in Contents :
          /\ Cardinality(DOMAIN saved) < MaxSaves \/ <<g, model, horizon>> \in DOMAIN saved
          /\ outputs' = SaveOutputs(outputs, g, model, horizon, MetricsResult(v),
                                    Predictions(v), ExtraMetrics(v))
          /\ saved' = (<<g, model, horizon>> :>
                          [metrics |-> MetricsResult(v), predictions |-> Predictions(v),
                           extra_metrics |-> ExtraMetrics(v)]) @@ saved
    /\ UNCHANGED <<resp, listing, writer, reader>>
    /\ UNCHANGED <<pipelineVars, sourceVars, metricsVars, trainVars>>

\* GET /metrics and GET /predict.
read_output ==
    /\ resp = NoCall
    /\ listing = NoListing
    /\ \E code \in Codes, file_type \in FileTypes, model \in Models, horizon \in Horizons :
          resp' = [request |-> [granularity_code |-> code, file_type |-> file_type,
                                model |-> model, horizon |-> horizon]]
                  @@ ReadOutput(outputs, code, file_type, model, horizon)
    /\ UNCHANGED <<outputs, saved, listing, writer, reader>>
    /\ UNCHANGED <<pipelineVars, sourceVars, metricsVars, trainVars>>

\* GET /available.
list_available_models ==
    /\ resp = NoCall
    /\ listing = NoListing
    /\ listing' = ListAvailableModels(outputs)
    /\ UNCHANGED <<outputs, saved, resp, writer, reader>>
    /\ UNCHANGED <<pipelineVars, sourceVars, metricsVars, trainVars>>

NextStore ==
    \/ save_outputs
    \/ read_output
    \/ list_available_models

SpecStore == InitStore /\ [][NextStore]_vars

\* A training run saving its outputs while the query layer and a reader
\* are at work.  save_outputs writes its two files one after the other,
\* and each write opens (and so empties) the file before the text is
\* dumped; the reader loads the metrics and then the predictions of one
\* key.
RetrainGranularities == {"H", "D"}

InitRetrain == InitStore

\* open(metrics_path, "w")
save_outputs_open_metrics ==
    /\ writer.at = "idle"
    /\ \E g \in RetrainGranularities, v \in Contents :
          /\ writer' = [at |-> "metrics_open", g |-> g, model |-> RF, horizon |-> 24,
                        v |-> v]
          /\ outputs' = WriteFile(outputs, SavePath(g, MetricsType, RF, 24), EmptyFile)
    /\ UNCHANGED <<saved, resp, listing, reader>>
    /\ UNCHANGED <<pipelineVars, sourceVars, metricsVars, trainVars>>

\* json.dump(metrics_out, f) and the close of the file
save_outputs_dump_metrics ==
    /\ writer.at = "metrics_open"
    /\ outputs' = WriteFile(outputs,
                            SavePath(writer.g, MetricsType, writer.model, writer.horizon),
                            JsonDump(MetricsOut(writer.g, writer.model, writer.horizon,
                                                MetricsResult(writer.v),
                                                ExtraMetrics(writer.v))))
    /\ writer' = [writer EXCEPT !.at = "metrics_closed"]
    /\ UNCHANGED <<saved, resp, listing, reader>>
    /\ UNCHANGED <<pipelineVars, sourceVars, metricsVars, trainVars>>

\* open(preds_path, "w")
save_outputs_open_preds ==
    /\ writer.at = "metrics_closed"
    /\ outputs' = WriteFile(outputs,
                            SavePath(writer.g, PredsType, writer.model, writer.horizon),
                            EmptyFile)
    /\ writer' = [writer EXCEPT !.at = "preds_open"]
    /\ UNCHANGED <<saved, resp, listing, reader>>
    /\ UNCHANGED <<pipelineVars, sourceVars, metricsVars, trainVars>>

\* json.dump(preds_out, f), the close of the file and the return
save_outputs_dump_preds ==
    /\ writer.at = "preds_open"
    /\ outputs' = WriteFile(outputs,
                            SavePath(writer.g, PredsType, writer.model, writer.horizon),
                            JsonDump(PredsOut(writer.g, writer.model, writer.horizon,
                                              Predictions(writer.v))))
    /\ saved' = (<<writer.g, writer.model, writer.horizon>> :>
                    [metrics |-> MetricsResult(writer.v),
                     predictions |-> Predictions(writer.v),
                     extra_metrics |-> ExtraMetrics(writer.v)]) @@ saved
    /\ writer' = NoSave
    /\ UNCHANGED <<resp, listing, reader>>
    /\ UNCHANGED <<pipelineVars, sourceVars, metricsVars, trainVars>>

\* The reader's load_outputs(g, "metrics", model, horizon).
load_outputs_metrics ==
    /\ reader.at = "idle"
    /\ \E g \in RetrainGranularities :
          reader' = [at |-> "metrics_loaded", g |-> g, model |-> RF, horizon |-> 24,
                     metrics |-> LoadOutputs(outputs, g, MetricsType, RF, 24),
                     preds |-> None]
    /\ UNCHANGED <<outputs, saved, resp, listing, writer>>
    /\ UNCHANGED <<pipelineVars, sourceVars, metricsVars, trainVars>>

\* The reader's load_outputs(g, "preds", model, horizon).
load_outputs_preds ==
    /\ reader.at = "metrics_loaded"
    /\ reader' = [reader EXCEPT
                     !.at = "done",
                     !.preds = LoadOutputs(outputs, reader.g, PredsType, reader.model,
                                           reader.horizon)]
    /\ UNCHANGED <<outputs, saved, resp, listing, writer>>
    /\ UNCHANGED <<pipelineVars, sourceVars, metricsVars, trainVars>>

AggregationNames == {"sum", "mean", "bogus"}

\* GET /predict/aggregated.
predict_aggregated ==
    /\ resp = NoCall
    /\ listing = NoListing
    /\ \E model \in Models, horizon \in Horizons, target_granularity \in Codes,
          aggregation \in AggregationNames :
          resp' = [request |-> [target_granularity |-> target_granularity,
                                aggregation |-> aggregation,
                                model |-> model, horizon |-> horizon]]
                  @@ PredictAggregated(outputs, model, horizon, target_granularity,
                                       aggregation)
    /\ UNCHANGED <<outputs, saved, listing, writer, reader>>
    /\ UNCHANGED <<pipelineVars, sourceVars, metricsVars, trainVars>>

NextRetrain ==
    \/ save_outputs_open_metrics
    \/ save_outputs_dump_metrics
    \/ save_outputs_open_preds
    \/ save_outputs_dump_preds
    \/ load_outputs_metrics
    \/ load_outputs_preds
    \/ read_output
    \/ predict_aggregated

SpecRetrain == InitRetrain /\ [][NextRetrain]_vars

make_synthetic_hourly_demand ==
    /\ \E n_days \in 0..MaxSynthDays, seed \in Seeds :
          /\ rng' = MakeSyntheticHourlyDemand(rng, n_days, seed).rng
          /\ synthetic' = [n_days |-> n_days, seed |-> seed, called |-> TRUE,
                            df |-> MakeSyntheticHourlyDemand(rng, n_days, seed).df,
                            repeated |-> <<n_days, seed>> \in DOMAIN calls,
                            before |-> <<synthetic.n_days, synthetic.seed>>]
          /\ calls' = IF <<n_days, seed>> \in DOMAIN calls THEN calls
                       ELSE (<<n_days, seed>> :>
                                MakeSyntheticHourlyDemand(rng, n_days, seed).df) @@ calls
    /\ UNCHANGED request
    /\ UNCHANGED <<pipelineVars, storeVars, metricsVars, trainVars>>

NextSynth == make_synthetic_hourly_demand

SpecSynth == InitSynth /\ [][NextSynth]_vars

get_hourly_data ==
    /\ pc = "start"
    /\ \E source \in Sources, n_days \in DayLimits, years \in YearChoices, seed \in Seeds :
          /\ request' = [source |-> source, n_days |-> n_days, years |-> years,
                          seed |-> seed]
          /\ hourly' = GetHourlyData(files, rng, source, n_days, years, seed).df
          /\ err' = GetHourlyData(files, rng, source, n_days, years, seed).err
          /\ rng' = GetHourlyData(files, rng, source, n_days, years, seed).rng
          /\ pc' = IF GetHourlyData(files, rng, source, n_days, years, seed).err = ""
                    THEN "loaded" ELSE "error"
    /\ UNCHANGED <<files, gran, agg, series, feat, splitOf, testPeriods, train, test>>
    /\ UNCHANGED <<synthetic, calls>>
    /\ UNCHANGED <<storeVars, metricsVars, trainVars>>

NextSource == get_hourly_data

SpecSource == InitSource /\ [][NextSource]_vars

\* A training run on the minimum number of days of its granularity, with
\* no real data in the data directory: the granularities whose minimum is
\* at most MaxMinimumDays.
InitMinimum ==
    /\ files = NoFiles
    /\ gran \in {g \in Granularities : GetMinimumDaysForGranularity(g) <= MaxMinimumDays}
    /\ agg = "sum"
    /\ Fresh

\* get_data_for_granularity(n_days, granularity, seed, source=...) with the
\* minimum days: the hourly data, then the resampling.
get_data_for_granularity ==
    /\ pc = "start"
    /\ \E source \in {"synthetic", "auto"}, seed \in Seeds :
          /\ request' = [source |-> source,
                          n_days |-> Days(GetMinimumDaysForGranularity(gran)),
                          years |-> NoYears, seed |-> seed]
          /\ hourly' = GetHourlyData(files, rng, source, request'.n_days, NoYears, seed).df
          /\ rng' = GetHourlyData(files, rng, source, request'.n_days, NoYears, seed).rng
          /\ err' = IF GetHourlyData(files, rng, source, request'.n_days, NoYears,
                                      seed).err # ""
                     THEN GetHourlyData(files, rng, source, request'.n_days, NoYears,
                                        seed).err
                     ELSE ResampleToGranularity(hourly', gran, agg).err
          /\ series' = IF err' = "" THEN ResampleToGranularity(hourly', gran, agg).df
                        ELSE EmptySeries
          /\ pc' = IF err' = "" THEN "resampled" ELSE "error"
    /\ UNCHANGED <<files, gran, agg, feat, splitOf, testPeriods, train, test>>
    /\ UNCHANGED <<synthetic, calls>>
    /\ UNCHANGED <<storeVars, metricsVars, trainVars>>

NextMinimum ==
    \/ get_data_for_granularity
    \/ build_features
    \/ train_test_split_temporal

SpecMinimum == InitMinimum /\ [][NextMinimum]_vars

\* The arrays compute_all_metrics is called on: the documented example,
\* and arrays that repeat one value up to MaxLen times (none for the empty
\* array).  Values are thousandths.
ScenarioActual == <<100000, 200000, 300000>>

ScenarioPredicted == <<110000, 190000, 300000>>

Repeat(v, n) == [i \in 1..n |-> v]

ActualValues == {45, 3925, 100000}

PredictedValues == {0, 1000, 110000}

Actuals ==
    {ScenarioActual} \cup {Repeat(v, n) : v \in ActualValues, n \in 0..MaxLen}

Predicteds ==
    {ScenarioPredicted}
        \cup {Repeat(v, n) : v \in PredictedValues, n \in 0..MaxLen}

\* One call of compute_all_metrics.
InitMetrics ==
    /\ TrainIdle
    /\ PipelineIdle
    /\ StoreIdle
    /\ SourceIdle
    /\ y_true \in Actuals
    /\ y_pred \in Predicteds
    /\ result = NoResult

compute_all_metrics ==
    /\ ~result.called
    /\ result' = ComputeAllMetrics(y_true, y_pred)
    /\ UNCHANGED <<y_true, y_pred>>
    /\ UNCHANGED <<pipelineVars, storeVars, sourceVars, trainVars>>

NextMetrics == compute_all_metrics

SpecMetrics == InitMetrics /\ [][NextMetrics]_vars

\* The command lines of train_all.py: --granularities with up to MaxArgs
\* values (or none, which the parser rejects), every other option absent
\* or given once, --models with up to MaxArgs values.
Lists(S) == UNION {[1..k -> S] : k \in 1..MaxArgs}

GranularityArgs ==
    {<<"--granularities">>} \cup {<<"-g">> \o l : l \in Lists({"H", "W", "X"})}

ModelArgs == {<<>>} \cup {<<"--models">> \o l : l \in Lists({"xgb", "rf"})}

ParallelArgs == {<<>>, <<"--parallel">>}

SeedArgs == {<<>>, <<"--seed", "7">>}

SourceArgs == {<<>>, <<"--verbose">>}
                 \cup {<<"--source", x>> : x \in {"real", "synthetic", "bogus"}}

CommandLines ==
    {g \o m \o p \o sd \o sr :
        g \in GranularityArgs, m \in ModelArgs, p \in ParallelArgs, sd \in SeedArgs,
        sr \in SourceArgs}

InitTrain ==
    /\ PipelineIdle
    /\ StoreIdle
    /\ SourceIdle
    /\ MetricsIdle
    /\ argv \in CommandLines
    /\ args = NoArgs
    /\ jobs = <<>>

\* main() of train_all.py up to the launch of the jobs.
train_all_main ==
    /\ ~args.parsed
    /\ args' = ParseArgs(TrainAllParser, argv)
    /\ jobs' = IF args'.err # "" THEN <<>>
               ELSE [t \in DOMAIN Tasks(args'.ns) |->
                        [task |-> Tasks(args'.ns)[t], state |-> "submitted",
                         run |-> Failed(0)]]
    /\ UNCHANGED argv
    /\ UNCHANGED <<pipelineVars, storeVars, sourceVars, metricsVars>>

\* One job: train_model and the script it runs.  The pool runs the
\* submitted jobs in any order, the sequential loop in the order of the
\* task list.
train_model ==
    /\ args.parsed
    /\ args.err = ""
    /\ \E i \in 1..Len(jobs) :
          /\ jobs[i].state = "submitted"
          /\ args.ns.parallel \/ \A j \in 1..(i - 1) : jobs[j].state = "done"
          /\ jobs' = [jobs EXCEPT ![i] = [task  |-> jobs[i].task,
                                          state |-> "done",
                                          run   |-> RunScript(jobs[i].task)]]
    /\ UNCHANGED <<argv, args>>
    /\ UNCHANGED <<pipelineVars, storeVars, sourceVars, metricsVars>>

NextTrain ==
    \/ train_all_main
    \/ train_model

SpecTrain == InitTrain /\ [][NextTrain]_vars

----------------------------------------------------------------------------
(* Properties.                                                             *)

\* df with 1 added to every (non-NaN) demand from row p on.
PerturbFrom(df, p) ==
    [df EXCEPT !.cols["demand"] =
        [i \in 1..Len(@) |-> IF i >= p /\ ~IsNaN(@[i]) THEN FracAdd(@[i], Num(1))
                             ELSE @[i]]]

\* The position in df of the row with timestamp ts (0 if none).
PosOf(df, ts) ==
    IF \E i \in 1..NRows(df) : df.index[i] = ts
    THEN CHOOSE i \in 1..NRows(df) : df.index[i] = ts
    ELSE 0

\* The rows of `a` up to timestamp ts carry the same derived values in `b`.
SameFeaturesUpTo(a, b, ts) ==
    \A j \in 1..NRows(a) :
        a.index[j] <= ts =>
            /\ j <= NRows(b)
            /\ b.index[j] = a.index[j]
            /\ DOMAIN b.cols = DOMAIN a.cols
            /\ \A c \in DOMAIN a.cols \ {"demand"} : b.cols[c][j] = a.cols[c][j]

\* Consecutive rows are one period of g apart.
GapFree(df, g) ==
    \A i \in 1..(NRows(df) - 1) : df.index[i + 1] = AddUnits(df.index[i], g, 1)

\* The table that was split.
SplitInput == IF splitOf = "feat" THEN feat ELSE series

\* Row i of table a is row j of table b.
SameRow(a, i, b, j) ==
    /\ a.index[i] = b.index[j]
    /\ \A c \in DOMAIN a.cols : a.cols[c][i] = b.cols[c][j]

RowIn(a, i, b) == \E j \in 1..NRows(b) : SameRow(a, i, b, j)

\* C1: no look-ahead in build_features: for every granularity and every
\* returned row t, raising the demand of row t and of all later rows (the
\* number of rows unchanged) leaves every derived column of the rows up to
\* t as it was.
C1_NoLookAhead ==
    pc = "features" =>
        \A p \in 1..NRows(series) :
            PosOf(feat, series.index[p]) > 0 =>
                SameFeaturesUpTo(feat, BuildFeatures(PerturbFrom(series, p), gran),
                                 series.index[p])

\* A feature table of two rows or more whose later rows do change when the
\* demand is raised from the first returned row on.
C1_Witness ==
    /\ pc = "features"
    /\ NRows(feat) >= 2
    /\ BuildFeatures(PerturbFrom(series, PosOf(series, feat.index[1])), gran) # feat
    /\ SameFeaturesUpTo(feat,
                        BuildFeatures(PerturbFrom(series, PosOf(series, feat.index[1])), gran),
                        feat.index[1])

\* The two parts of a split of a non-empty table: the bounds and the
\* partition.
C2_SplitPartition ==
    pc = "split" /\ NRows(SplitInput) > 0 =>
        /\ \A j \in 1..NRows(train) :
              train.index[j] <= Subtract(IndexMax(SplitInput.index), testPeriods, gran)
        /\ \A j \in 1..NRows(test) :
              test.index[j] > Subtract(IndexMax(SplitInput.index), testPeriods, gran)
        /\ \A i \in 1..NRows(train) : ~RowIn(train, i, test)
        /\ \A i \in 1..NRows(SplitInput) :
              RowIn(SplitInput, i, train) # RowIn(SplitInput, i, test)
        /\ NRows(train) + NRows(test) = NRows(SplitInput)

\* The split of an empty table.
C2_EmptyInput ==
    pc = "split" /\ NRows(SplitInput) = 0 => NRows(train) = 0 /\ NRows(test) = 0

BucketsHolding(ts) ==
    {j \in 1..NRows(series) :
        BinLo(series.index[j], gran) <= ts /\ ts < BinHi(series.index[j], gran)}

\* The sum of the hourly demands whose bucket label is l.
HourlySumLabelled(l) ==
    LET Here(i) == Label(hourly.index[i], gran) = l
    IN  SumRange(ValuesAt(Demand(hourly), SelectSeq(Positions(NRows(hourly)), Here)),
                 1, Len(SelectSeq(Positions(NRows(hourly)), Here)))

\* C4: resampling to D, W, M or Y with the sum aggregator puts every hourly
\* point in exactly one bucket, every output value is the sum of the hourly
\* values of its bucket, and the output total equals the hourly total.
C4_VolumeConsistent ==
    pc = "resampled" /\ gran # "H" /\ agg = "sum" =>
        /\ \A i \in 1..NRows(hourly) :
              Cardinality(BucketsHolding(hourly.index[i])) = 1
        /\ \A j \in 1..NRows(series) :
              Demand(series)[j] = HourlySumLabelled(series.index[j])
        /\ SumRange(Demand(series), 1, NRows(series))
              = SumRange(Demand(hourly), 1, NRows(hourly))

\* Three hourly points or more summed into two buckets or more.
C4_Witness ==
    /\ pc = "resampled"
    /\ gran # "H"
    /\ agg = "sum"
    /\ NRows(hourly) >= 3
    /\ NRows(series) >= 2
    /\ \E j \in 1..NRows(series) : FracLess(Num(6), Demand(series)[j])

\* C5: resampling to D, W, M or Y emits a row only for a bucket that holds
\* at least one hourly point.
C5_EmptyBucketsOmitted ==
    pc = "resampled" /\ gran # "H" =>
        \A j \in 1..NRows(series) :
            \E i \in 1..NRows(hourly) : j \in BucketsHolding(hourly.index[i])

\* The lags N whose column lag_N the feature table has.
LagsPresent == {n \in 1..168 : LagName(n) \in DOMAIN feat.cols}

\* C6: every lag_N value of every feature row is the demand at the timestamp
\* exactly N periods of the granularity before the row's timestamp.
C6_LagIsDemandNPeriodsBefore ==
    pc = "features" =>
        \A n \in LagsPresent : \A j \in 1..NRows(feat) :
            /\ PosOf(series, AddUnits(feat.index[j], gran, 0 - n)) > 0
            /\ Demand(series)[PosOf(series, AddUnits(feat.index[j], gran, 0 - n))]
                  = feat.cols[LagName(n)][j]

\* C7: the weekly long-lag rule: with n > 52 rows the only lag besides lag_1
\* and lag_4 is lag_52; otherwise it is lag_L for L = min(n - 1, 52) if
\* L > 4 and there is none if not; lag_1 and lag_4 are the one- and
\* four-row shifts in every case.
C7_WeeklyLongLag ==
    pc = "features" /\ gran = "W" =>
        /\ {"lag_1", "lag_4"} \subseteq DOMAIN feat.cols
        /\ LagsPresent \ {1, 4} =
              IF NRows(series) > 52 THEN {52}
              ELSE IF Min2(NRows(series) - 1, 52) > 4
              THEN {Min2(NRows(series) - 1, 52)}
              ELSE {}
        /\ \A j \in 1..NRows(feat) :
              /\ feat.cols["lag_1"][j] = Demand(series)[PosOf(series, feat.index[j]) - 1]
              /\ feat.cols["lag_4"][j] = Demand(series)[PosOf(series, feat.index[j]) - 4]

\* 30 weekly rows: the fallback column is lag_29.
C7_Witness ==
    /\ pc = "features"
    /\ gran = "W"
    /\ NRows(series) = 30
    /\ LagsPresent = {1, 4, 29}
    /\ NRows(feat) = 1

AllPositive(df) == \A i \in 1..NRows(df) : FracLess(Num(0), Demand(df)[i])

\* C8: a gap-free weekly series of 6..52 rows gives a feature table with the
\* fallback lag column and more than one row, and a split with at least one
\* test period leaves a non-empty training set.
C8_ShortHistoryKeepsTraining ==
    ( /\ pc = "split"
      /\ splitOf = "feat"
      /\ gran = "W"
      /\ NRows(series) >= 6
      /\ NRows(series) <= 52
      /\ GapFree(series, gran)
      /\ AllPositive(series)
      /\ testPeriods >= 1 ) =>
        /\ LagName(NRows(series) - 1) \in DOMAIN feat.cols
        /\ NRows(feat) > 1
        /\ NRows(train) > 0

\* C9: a gap-free hourly series of n rows gives exactly the rows from
\* position 169 on, max(0, n - 168) of them, and no error.
C9_HourlyRows ==
    pc = "features" /\ gran = "H" /\ GapFree(series, gran) =>
        /\ err = ""
        /\ NRows(feat) = Max2(0, NRows(series) - 168)
        /\ \A j \in 1..NRows(feat) : feat.index[j] = series.index[168 + j]
        /\ \A j \in 1..NRows(feat) : Demand(feat)[j] = Demand(series)[168 + j]

\* 72 hourly rows (3 days): an empty feature table.
C9_Witness ==
    /\ pc = "features"
    /\ gran = "H"
    /\ GapFree(series, gran)
    /\ NRows(series) = 72
    /\ NRows(feat) = 0
    /\ "lag_168" \in DOMAIN feat.cols

\* C10: with an aggregator outside {sum, mean, max, min} the resampling
\* fails and no series is returned, at every granularity.
C10_UnknownAggregatorFails ==
    agg \notin {"sum", "mean", "max", "min"} => pc \notin {"resampled", "features", "split"}

\* C11: weekly resampling buckets are Monday-to-Monday: every weekly row is
\* stamped with a Monday 00:00 and aggregates exactly the hourly points of
\* one Monday 00:00 (inclusive) to next Monday 00:00 (exclusive) week, the
\* week that starts at its timestamp for all rows or the week that ends at
\* it for all rows.
C11_WeeklyMondayToMonday ==
    pc = "resampled" /\ gran = "W" /\ agg \in {"sum", "mean", "max", "min"} =>
        \E off \in {0, 168} :
            \A i \in 1..NRows(series) :
                /\ DayOfWeek(series.index[i]) = 0
                /\ HourOf(series.index[i]) = 0
                /\ series.cols["demand"][i] =
                      Aggregate(ValuesBetween(hourly, series.index[i] - off,
                                              series.index[i] - off + 168), agg)

\* Every key a save can name.
StoreKeys == Granularities \X Models \X Horizons

MetricNames == {"mae", "rmse", "smape", "mape"}

\* C12: output store round trip: for every saved key (g, m, h),
\* load_outputs(g, "metrics", m, h) returns a record with the saved metric
\* values and the key fields model = m, granularity = g, horizon = h, and
\* load_outputs(g, "preds", m, h) returns a record whose series is the saved
\* prediction list, in the same order.
C12_RoundTrip ==
    \A key \in DOMAIN saved :
        /\ LoadOutputs(outputs, key[1], MetricsType, key[2], key[3]) # None
        /\ LoadOutputs(outputs, key[1], PredsType, key[2], key[3]) # None
        /\ \A name \in MetricNames :
              LoadOutputs(outputs, key[1], MetricsType, key[2], key[3])[name]
                  = saved[key].metrics[name]
        /\ LoadOutputs(outputs, key[1], MetricsType, key[2], key[3]).model = key[2]
        /\ LoadOutputs(outputs, key[1], MetricsType, key[2], key[3]).granularity = key[1]
        /\ LoadOutputs(outputs, key[1], MetricsType, key[2], key[3]).horizon = key[3]
        /\ LoadOutputs(outputs, key[1], PredsType, key[2], key[3]).series
              = saved[key].predictions

\* A daily key was saved with two predictions and GET /predict returned
\* them.
C12_Witness ==
    /\ resp.status = Ok
    /\ resp.request.granularity_code = "D"
    /\ resp.request.file_type = PredsType
    /\ <<"D", resp.request.model, resp.request.horizon>> \in DOMAIN saved
    /\ Len(resp.body.series) = 2
    /\ resp.body.series = saved[<<"D", resp.request.model, resp.request.horizon>>].predictions

\* C13: after any sequence of saves, the load of a saved key returns exactly
\* the records built from the most recent save to that key (no field of an
\* earlier save), the load of a key never saved returns None, and the
\* outputs directory holds two files per saved key besides the legacy ones.
C13_LastSaveWins ==
    /\ \A key \in StoreKeys :
          IF key \in DOMAIN saved
          THEN /\ LoadOutputs(outputs, key[1], MetricsType, key[2], key[3])
                     = MetricsOut(key[1], key[2], key[3], saved[key].metrics,
                                  saved[key].extra_metrics)
               /\ LoadOutputs(outputs, key[1], PredsType, key[2], key[3])
                     = PredsOut(key[1], key[2], key[3], saved[key].predictions)
          ELSE /\ LoadOutputs(outputs, key[1], MetricsType, key[2], key[3]) = None
               /\ LoadOutputs(outputs, key[1], PredsType, key[2], key[3]) = None
    /\ Cardinality({p \in DOMAIN outputs : p[1] # Root}) = 2 * Cardinality(DOMAIN saved)

\* Two keys of one folder that differ in the horizon only hold different
\* contents, the second without the extra field of the first.
C13_Witness ==
    /\ <<"W", RF_2, 2>> \in DOMAIN saved
    /\ <<"W", RF_2, 24>> \in DOMAIN saved
    /\ saved[<<"W", RF_2, 2>>].extra_metrics # NoFiles
    /\ saved[<<"W", RF_2, 24>>].extra_metrics = NoFiles
    /\ "trained_on" \notin DOMAIN LoadOutputs(outputs, "W", MetricsType, RF_2, 24)

\* C14: when _read_output is called with a code the registry resolves to
\* HOURLY, the folder lookup misses and the legacy file exists, the legacy
\* content is returned; for a code that resolves to D, W, M or Y a miss is
\* NotFound whatever the legacy files.
C14_LegacyFallback ==
    resp # NoCall /\ FromCode(resp.request.granularity_code) # "ValueError"
      /\ LoadOutputs(outputs, FromCode(resp.request.granularity_code),
                     resp.request.file_type, resp.request.model,
                     resp.request.horizon) = None =>
        IF FromCode(resp.request.granularity_code) = "H"
           /\ LoadLegacyOutputs(outputs, resp.request.file_type, resp.request.model,
                                resp.request.horizon) # None
        THEN /\ resp.status = Ok
             /\ resp.body = WithHourlyFields(
                    LoadLegacyOutputs(outputs, resp.request.file_type,
                                      resp.request.model, resp.request.horizon))
        ELSE resp.status = NotFound

\* C15: with no legacy files, list_available_models() lists {model: m,
\* horizon: h} under granularity g if and only if (g, m, h) was saved.
C15_ListingMatchesSaves ==
    listing # NoListing /\ (\A p \in DOMAIN outputs : p[1] # Root) =>
        \A key \in StoreKeys :
            [model |-> key[2], horizon |-> key[3]] \in listing[key[1]]
                <=> key \in DOMAIN saved

\* C19: make_synthetic_hourly_demand is deterministic: a call returns the
\* series the first call with the same (n_days, seed) returned, whatever
\* calls were made in between, and the series has n_days * 24 hourly points
\* from 2026-01-01 00:00.
C19_Deterministic ==
    synthetic.called =>
        /\ synthetic.df = calls[<<synthetic.n_days, synthetic.seed>>]
        /\ NRows(synthetic.df) = synthetic.n_days * 24
        /\ \A i \in 1..NRows(synthetic.df) : synthetic.df.index[i] = Epoch2026 + i - 1

\* A one-day call repeated right after a call with another seed.
C19_Witness ==
    /\ synthetic.called
    /\ synthetic.repeated
    /\ synthetic.n_days = 1
    /\ synthetic.before[1] = 1
    /\ synthetic.before[2] # synthetic.seed
    /\ synthetic.df = calls[<<synthetic.n_days, synthetic.seed>>]

\* C20: source selection in get_hourly_data.  With "auto" the result is the
\* real series (cut to the day limit) whenever the real load succeeds, and
\* the synthetic series only when it fails with FileNotFoundError; with
\* "real" a failed load is the caller's error and no data is returned; with
\* "synthetic" the result is the synthetic series whatever the directory
\* holds.
C20_SourceSelection ==
    pc # "start" =>
        CASE request.source = "synthetic" ->
                /\ err = ""
                /\ hourly = SyntheticSeries(Reseed(rng, request.seed),
                                            DaysOrDefault(request.n_days) * 24)
          [] request.source = "real" ->
                /\ err = LoadRealDemandData(files, request.years).err
                /\ rng \in RngStates
                /\ IF err = ""
                   THEN hourly = LastDays(LoadRealDemandData(files, request.years).df,
                                          request.n_days)
                   ELSE pc = "error" /\ hourly = EmptySeries
          [] OTHER ->
                /\ err = ""
                /\ IF LoadRealDemandData(files, request.years).err = ""
                   THEN /\ hourly = LastDays(LoadRealDemandData(files, request.years).df,
                                             request.n_days)
                        /\ rng \in RngStates
                   ELSE /\ LoadRealDemandData(files, request.years).err = "FileNotFoundError"
                        /\ hourly = SyntheticSeries(Reseed(rng, request.seed),
                                                    DaysOrDefault(request.n_days) * 24)

\* "auto" on a directory that holds 2026 only, asked for 2025: one synthetic
\* day.
C20_Witness ==
    /\ pc = "loaded"
    /\ request.source = "auto"
    /\ DOMAIN files = {2026}
    /\ request.years = [given |-> TRUE, list |-> <<2025>>]
    /\ request.n_days = Days(1)
    /\ NRows(hourly) = 24
    /\ hourly.index[1] = Epoch2026

\* C16: compute_all_metrics fails whenever the actual and the predicted
\* array have different lengths (length 1 against length n included), and
\* returns a metrics record only for arrays of equal length.
C16_LengthMismatchFails ==
    result.called => ((Len(y_true) # Len(y_pred)) <=> (result.err # ""))

\* The documented example has been computed.
C17_Witness ==
    /\ result.called
    /\ y_true = ScenarioActual
    /\ y_pred = ScenarioPredicted

\* C17: compute_all_metrics([100,200,300], [110,190,300]) returns
\* mae = 6.67 and rmse = 8.16 (the root of 200/3), with smape = 4.88 and
\* mape = 5.0, two small positive percentages.
C17_Scenario ==
    C17_Witness =>
        /\ result.err = ""
        /\ result.mae = Frac(667, 100)
        /\ result.rmse = Frac(816, 100)
        /\ result.smape = Frac(488, 100)
        /\ result.mape = Frac(500, 100)

\* C17 as stated: the example returns mae = 6.67 and rmse within a
\* hundredth of 7.07, with smape and mape small positive percentages.
C17_ScenarioAsStated ==
    C17_Witness =>
        /\ result.err = ""
        /\ result.mae = Frac(667, 100)
        /\ ~FracLess(result.rmse, Frac(706, 100))
        /\ ~FracLess(Frac(708, 100), result.rmse)
        /\ FracLess(Num(0), result.smape) /\ FracLess(result.smape, Num(10))
        /\ FracLess(Num(0), result.mape) /\ FracLess(result.mape, Num(10))

\* C18: for every pair of non-empty arrays of equal length the returned
\* record has mae >= 0, rmse >= 0 and rmse >= mae, as rounded to two
\* decimals.
C18_RmseAtLeastMae ==
    (result.called /\ Len(y_true) = Len(y_pred) /\ Len(y_true) > 0) =>
        /\ result.err = ""
        /\ ~FracLess(result.mae, Num(0))
        /\ ~FracLess(result.rmse, Num(0))
        /\ ~FracLess(result.rmse, result.mae)

\* C21: load_real_demand_data never returns an empty series: when no
\* valid source record is found (no year file, or files without a record
\* of present, positive demand) it fails instead.
C21_NeverEmpty ==
    pc = "loaded" => NRows(hourly) > 0

\* C22: the real-data load is all-or-nothing over the requested years: it
\* never returns a series that leaves out a requested year whose file is
\* not there.
C22_AllOrNothing ==
    (pc = "loaded" /\ request.source = "real" /\ request.years.given) =>
        \A i \in 1..Len(request.years.list) : request.years.list[i] \in DOMAIN files

\* C23: the monthly recipe on a series of n rows: lag_12 and roll_12_mean
\* are both present exactly when n > 12; with n <= 12 roll_12_mean is
\* absent and the only lag besides lag_1 is the fallback lag_L, L = n - 1,
\* present exactly when L > 1; lag_1 and roll_3_mean are always present.
C23_MonthlyLags ==
    pc = "features" /\ gran = "M" =>
        /\ {"lag_1", "roll_3_mean"} \subseteq DOMAIN feat.cols
        /\ ("lag_12" \in DOMAIN feat.cols) <=> (NRows(series) > 12)
        /\ ("roll_12_mean" \in DOMAIN feat.cols) <=> (NRows(series) > 12)
        /\ NRows(series) <= 12 =>
              LagsPresent \ {1} =
                  IF NRows(series) - 1 > 1 THEN {NRows(series) - 1} ELSE {}

\* 12 monthly rows: the fallback column is lag_11 and there is no
\* roll_12_mean.
C23_Witness ==
    /\ pc = "features"
    /\ gran = "M"
    /\ NRows(series) = 12
    /\ LagsPresent = {1, 11}
    /\ "roll_12_mean" \notin DOMAIN feat.cols
    /\ "roll_3_mean" \in DOMAIN feat.cols

\* The reader's two loads both returned (neither raised).
BothLoaded ==
    /\ reader.at = "done"
    /\ reader.metrics # JSONDecodeError
    /\ reader.preds # JSONDecodeError

\* C24: a reader that loads the metrics and the predictions of a key
\* while, or after, save_outputs writes that key never sees a partial
\* update: the two records come from the same save, or both files are
\* absent.
C24_NoPartialUpdate ==
    BothLoaded =>
        \/ reader.metrics = None /\ reader.preds = None
        \/ \E v \in Contents :
              /\ reader.metrics = MetricsOut(reader.g, reader.model, reader.horizon,
                                             MetricsResult(v), ExtraMetrics(v))
              /\ reader.preds = PredsOut(reader.g, reader.model, reader.horizon,
                                         Predictions(v))

\* C27: _read_output answers 400 (invalid granularity) only for a code
\* that is none of H, D, W, M, Y in either letter case; a failure to read
\* the stored output of a valid code is never answered that way.
C27_BadRequestOnlyForInvalidCode ==
    (resp # NoCall /\ "granularity_code" \in DOMAIN resp.request
        /\ resp.status = BadRequest) =>
        FromCode(resp.request.granularity_code) = "ValueError"

\* C28: predict_aggregated answers 400, and returns no aggregated series,
\* for every target_granularity the registry resolves to HOURLY.
C28_HourlyTargetRejected ==
    (resp # NoCall /\ "target_granularity" \in DOMAIN resp.request
        /\ FromCode(resp.request.target_granularity) = "H") =>
        /\ resp.status = BadRequest
        /\ "series" \notin DOMAIN resp.body

\* C25: in parallel mode, whatever command line the parser accepts, no two
\* jobs submitted to the pool write the same output key (granularity,
\* model, horizon).
C25_DisjointKeys ==
    (args.parsed /\ args.err = "" /\ args.ns.parallel) =>
        \A i, j \in 1..Len(jobs) :
            i # j => OutputKey(jobs[i].task) # OutputKey(jobs[j].task)

\* C29: every xgb job of train_all runs train_xgb.py with a command line
\* its parser accepts, and train_xgb.py takes its data from the source
\* train_all was given, for every granularity and source.
C29_XgbCommandAccepted ==
    \A i \in 1..Len(jobs) :
        (jobs[i].state = "done" /\ jobs[i].task.model = "xgb") =>
            /\ jobs[i].run.returncode = 0
            /\ jobs[i].run.used = jobs[i].task.source

\* C26: the minimum number of days of a granularity is enough: a gap-free
\* hourly series of that many days, resampled to the granularity, passed
\* through build_features and split with the granularity's default test
\* periods, leaves a non-empty training set and a non-empty test set.
C26_MinimumDaysSuffice ==
    (/\ pc = "split"
     /\ splitOf = "feat"
     /\ testPeriods = DefaultTestPeriods(gran)
     /\ request # NoRequest
     /\ request.n_days = Days(GetMinimumDaysForGranularity(gran))
     /\ NRows(hourly) = 24 * GetMinimumDaysForGranularity(gran)
     /\ GapFree(hourly, "H")) =>
        /\ NRows(train) > 0
        /\ NRows(test) > 0

====
